---- MODULE Spec2Model ----
(***************************************************************************)
(* CodexExecutor (codex-executor.ts): the bridge from a Codex thread's     *)
(* event stream to A2A task updates, with its thread cache per context and *)
(* its cancellation set.                                                   *)
(*                                                                         *)
(* Strings are sequences of tokens (<<"Error: ", "boom">> is the string    *)
(* "Error: boom"), so that concatenation, slice, trim and join are         *)
(* computed and not assumed.  An optional value (T | undefined) is a       *)
(* sequence of at most one element: <<>> is undefined, <<v>> is v.         *)
(***************************************************************************)
EXTENDS Integers, Sequences, FiniteSets, TLC

\* ------------------------------------------------------------------ bounds
MaxStarts == 3          \* start() calls made on the server
MaxStops == 1           \* stop() calls made on the server
MaxExecs == 2        \* execute calls in a behaviour
MaxEvents == 2       \* events a stream yields before it ends
MaxCancels == 2      \* cancelTask calls in a behaviour
OneExec == 1         \* execute calls where a claim is about one call
FewEvents == 1       \* events a stream yields where their content is not the point
FewCancels == 1      \* cancelTask calls where the race is not the point
ManyEvents == 3      \* events a stream yields where a whole turn must fit

Execs == 1..MaxExecs
Tasks == {"t1", "t2"}
Contexts == {"c1", "c2"}

\* ------------------------------------------------------- optional values
None == <<>>
Some(v) == <<v>>
\* JavaScript truthiness of (string | undefined)
Truthy(opt) == opt /= None /\ opt[1] /= <<>>

\* ------------------------------------------------------------- Map / Set
EmptyMap == [k \in {} |-> 0]
MapHas(m, k) == k \in DOMAIN m
MapGet(m, k) == IF k \in DOMAIN m THEN Some(m[k]) ELSE None
MapSet(m, k, v) == [x \in (DOMAIN m) \cup {k} |-> IF x = k THEN v ELSE m[x]]
MapDelete(m, k) == [x \in (DOMAIN m) \ {k} |-> m[x]]

\* ---------------------------------------------------------------- inputs
\* userMessage.parts of the request: text parts and one non-text part
TextPart(t) == [kind |-> "text", text |-> t]
FilePart == [kind |-> "file", text |-> <<"f">>]
UserMessages ==
    { [parts |-> <<>>],
      [parts |-> <<TextPart(<<>>)>>],
      [parts |-> <<TextPart(<<>>), TextPart(<<>>)>>],
      [parts |-> <<FilePart>>],
      [parts |-> <<TextPart(<<"H", "i">>)>>] }


\* process.cwd()
ProcessCwd == <<"/cwd">>

\* the events a thread's stream may yield
TurnStarted == [type |-> "turn.started"]
TurnCompleted == [type |-> "turn.completed", usage |-> <<"usage">>]
TurnFailed(m) == [type |-> "turn.failed", error |-> [message |-> m]]
ItemEvent(ty, item) == [type |-> ty, item |-> item]
TextItem(ty, id, text) == [id |-> id, type |-> ty, text |-> text]
ItemEventTypes == {"item.started", "item.updated", "item.completed"}
\* a command_execution item and an mcp_tool_call item; error and result are optional
CommandItem(id, status, output, exitCode) ==
    [id |-> id, type |-> "command_execution", command |-> <<"ls">>, status |-> status,
     aggregated_output |-> output, exit_code |-> exitCode]
McpItem(id, status, error, result) ==
    [id |-> id, type |-> "mcp_tool_call", server |-> "srv", tool |-> "tool",
     arguments |-> <<>>, status |-> status, error |-> error, result |-> result]
\* a file_change item and a todo_list item
FileChangeItem(id, status, changes) ==
    [id |-> id, type |-> "file_change", status |-> status, changes |-> changes]
TodoListItem(id, items) == [id |-> id, type |-> "todo_list", items |-> items]

\* ------------------------------------------------------------ config.ts
DEFAULT_CODEX_CONFIG ==
    [model |-> "gpt-5-codex", maxTokens |-> 4096, autoApprove |-> FALSE,
     sandboxMode |-> "workspace-write", writableRoots |-> <<>>,
     networkAccess |-> TRUE, approvalPolicy |-> "on-failure",
     webSearchEnabled |-> TRUE, reasoningEffort |-> "medium",
     workingDirectory |-> Some(<<>>)]

\* { ...DEFAULT_CODEX_CONFIG, ...this.getConfig(contextId) }
resolveConfig(override) ==
    [k \in (DOMAIN DEFAULT_CODEX_CONFIG) \cup (DOMAIN override) |->
        IF k \in DOMAIN override THEN override[k] ELSE DEFAULT_CODEX_CONFIG[k]]

\* --------------------------------------------------------------- strings
IsSpace(c) == c = " "

RECURSIVE TrimStart(_)
TrimStart(s) ==
    IF s /= <<>> /\ IsSpace(Head(s)) THEN TrimStart(Tail(s)) ELSE s

RECURSIVE TrimEnd(_)
TrimEnd(s) ==
    IF s /= <<>> /\ IsSpace(s[Len(s)]) THEN TrimEnd(SubSeq(s, 1, Len(s) - 1)) ELSE s

\* String.prototype.trim
Trim(s) == TrimEnd(TrimStart(s))

\* String.prototype.slice(start) for 0 <= start
Slice(s, start) == IF start >= Len(s) THEN <<>> ELSE SubSeq(s, start + 1, Len(s))

\* faulty variant: join('') in place of join('\n')
RECURSIVE JoinNoSeparator(_)
JoinNoSeparator(texts) ==
    IF texts = <<>> THEN <<>> ELSE texts[1] \o JoinNoSeparator(Tail(texts))

\* Array.prototype.join('\n') over strings
RECURSIVE JoinLines(_)
JoinLines(texts) ==
    IF texts = <<>> THEN <<>>
    ELSE IF Len(texts) = 1 THEN texts[1]
    ELSE texts[1] \o <<"\n">> \o JoinLines(Tail(texts))

\* Array.prototype.filter(part => part.kind === 'text').map(part => part.text)
RECURSIVE TextsOf(_)
TextsOf(parts) ==
    IF parts = <<>> THEN <<>>
    ELSE IF Head(parts).kind = "text"
         THEN <<Head(parts).text>> \o TextsOf(Tail(parts))
         ELSE TextsOf(Tail(parts))

\* the text execute hands to the thread
ExtractText(userMessage) == JoinLines(TextsOf(userMessage.parts))

normalizeWorkingDirectory(workingDirectory) ==
    IF ~Truthy(workingDirectory) THEN None
    ELSE LET trimmed == Trim(workingDirectory[1])
         IN  IF Len(trimmed) > 0 THEN Some(trimmed) ELSE None

\* workingDirOverride || this.normalizeWorkingDirectory(config.workingDirectory)
EffectiveWorkingDir(workingDirOverride, config) ==
    IF Truthy(workingDirOverride) THEN workingDirOverride
    ELSE normalizeWorkingDirectory(config.workingDirectory)

\* workingDir || process.cwd()
CurrentWorkingDir(workingDir) ==
    IF Truthy(workingDir) THEN workingDir[1] ELSE ProcessCwd

\* faulty variant: the key leaves the working directory out
ThreadKeyOfContext(contextId, currentWorkingDir) == <<contextId, ":">>

\* `${contextId}:${currentWorkingDir}`
ThreadKey(contextId, currentWorkingDir) == <<contextId, ":">> \o currentWorkingDir

\* the options execute passes to codex.startThread
ThreadOptions(config, workingDir) ==
    [skipGitRepoCheck |-> TRUE,
     webSearchEnabled |-> config.webSearchEnabled,
     networkAccessEnabled |-> config.networkAccess,
     webSearchMode |-> "live",
     workingDirectory |-> IF Truthy(workingDir) THEN workingDir ELSE None,
     sandboxMode |-> config.sandboxMode,
     approvalPolicy |-> config.approvalPolicy]

\* ------------------------------------------------- what is published
\* (messageId and timestamp, fresh on every call, are left out of the records)
NoMessage == [kind |-> "none"]
AgentMessage(taskId, contextId, part) ==
    [kind |-> "message", role |-> "agent", taskId |-> taskId,
     contextId |-> contextId, parts |-> <<part>>]
DataPart(data) == [kind |-> "data", data |-> data]

\* publishStatus: the status-update event
StatusUpdate(taskId, contextId, state, final, message, codexAgentKind) ==
    [kind |-> "status-update", taskId |-> taskId, contextId |-> contextId,
     state |-> state, message |-> message, final |-> final,
     codexAgent |-> codexAgentKind]

\* the Task execute publishes when the request carries none
InitialTask(taskId, contextId, userMessage) ==
    [kind |-> "task", id |-> taskId, contextId |-> contextId,
     state |-> "submitted", history |-> <<userMessage>>]

TextContent(taskId, contextId, text) ==
    StatusUpdate(taskId, contextId, "working", FALSE,
                 AgentMessage(taskId, contextId, TextPart(text)), "text-content")

Thought(taskId, contextId, text) ==
    StatusUpdate(taskId, contextId, "working", FALSE,
                 AgentMessage(taskId, contextId, DataPart([text |-> text])), "thought")

ToolUpdate(taskId, contextId, data) ==
    StatusUpdate(taskId, contextId, "working", FALSE,
                 AgentMessage(taskId, contextId, DataPart(data)), "tool-call-update")

ToolOutput(taskId, contextId, callId, output, append, lastChunk) ==
    [kind |-> "artifact-update", taskId |-> taskId, contextId |-> contextId,
     artifactId |-> <<"tool-", callId, "-output">>, text |-> output,
     append |-> append, lastChunk |-> lastChunk]

\* JSON.stringify(value, null, 2) of an object: one token holding the value
stringifyToolOutput(value) == << [json |-> value] >>

\* faulty variant: the failure update carries a fixed text, not the message given
FailureWithFixedText(taskId, contextId, errorMessage) ==
    StatusUpdate(taskId, contextId, "failed", TRUE,
                 AgentMessage(taskId, contextId, TextPart(<<"Error: ", "failed">>)),
                 "state-change")

\* publishFailure's status-update (it also calls eventBus.finished())
Failure(taskId, contextId, errorMessage) ==
    StatusUpdate(taskId, contextId, "failed", TRUE,
                 AgentMessage(taskId, contextId, TextPart(<<"Error: ">> \o errorMessage)),
                 "state-change")

\* crypto.randomUUID() as a context id
RandomContext == "random-uuid"

\* publishCanceled's status-update; contextId is optional
Canceled(taskId, contextId) ==
    LET ctx == IF contextId = None THEN RandomContext ELSE contextId[1]
    IN  StatusUpdate(taskId, ctx, "canceled", TRUE,
                     AgentMessage(taskId, ctx, TextPart(<<"Task canceled.">>)),
                     "state-change")

\* ------------------------------------- the loop body of execute, per item
\* Each operator returns what one event publishes and the two bookkeeping
\* maps after it: [updates, lens (sentTextLengths), states (sentItemStates)].
Outcome(updates, lens, states) == [updates |-> updates, lens |-> lens, states |-> states]

\* faulty variant: the length already sent is never remembered
SentLengthForgotten(lens, key) == 0

\* sentTextLengths.get(key) || 0; a key is the item id, alone or followed by
\* ":output"
SentLength(lens, key) == IF key \in DOMAIN lens THEN lens[key] ELSE 0

\* faulty variant: the length sent is recorded for every non-empty text
DispatchTextAlwaysRecords(item, taskId, contextId, lens, states) ==
    IF item.text /= <<>>
    THEN LET prevLength == SentLength(lens, <<item.id>>)
             deltaText == Slice(item.text, prevLength)
         IN  IF Len(deltaText) > 0
             THEN Outcome(<< IF item.type = "reasoning"
                             THEN Thought(taskId, contextId, deltaText)
                             ELSE TextContent(taskId, contextId, deltaText) >>,
                          MapSet(lens, <<item.id>>, Len(item.text)), states)
             ELSE Outcome(<<>>, MapSet(lens, <<item.id>>, Len(item.text)), states)
    ELSE Outcome(<<>>, lens, states)

\* case 'agent_message' / 'reasoning'
DispatchText(item, taskId, contextId, lens, states) ==
    IF item.text /= <<>>
    THEN LET prevLength == SentLength(lens, <<item.id>>)
             deltaText == Slice(item.text, prevLength)
         IN  IF Len(deltaText) > 0
             THEN Outcome(<< IF item.type = "reasoning"
                             THEN Thought(taskId, contextId, deltaText)
                             ELSE TextContent(taskId, contextId, deltaText) >>,
                          MapSet(lens, <<item.id>>, Len(item.text)), states)
             ELSE Outcome(<<>>, lens, states)
    ELSE Outcome(<<>>, lens, states)

\* faulty variant: the output chunk is published before the started update
DispatchCommandOutputFirst(item, isCompleted, taskId, contextId, lens, states) ==
    LET stateKey == <<item.id, ":state">>
        outputKey == <<item.id, ":output">>
        lastState == MapGet(states, stateKey)
        started ==
            IF lastState = None
            THEN << ToolUpdate(taskId, contextId,
                      [request |-> [callId |-> item.id, name |-> "command_execution"],
                       status |-> item.status, command |-> item.command]) >>
            ELSE <<>>
        states1 == IF lastState = None THEN MapSet(states, stateKey, "started") ELSE states
        prevLength == SentLength(lens, outputKey)
        deltaOutput == Slice(item.aggregated_output, prevLength)
        hasDelta == item.aggregated_output /= <<>> /\ Len(deltaOutput) > 0
        output ==
            IF hasDelta
            THEN << ToolOutput(taskId, contextId, item.id, deltaOutput, TRUE, isCompleted) >>
            ELSE <<>>
        lens1 == IF hasDelta THEN MapSet(lens, outputKey, Len(item.aggregated_output)) ELSE lens
        complete == isCompleted /\ lastState /= Some("completed")
        completed ==
            IF complete
            THEN << ToolUpdate(taskId, contextId,
                      [request |-> [callId |-> item.id, name |-> "command_execution"],
                       status |-> item.status, command |-> item.command,
                       exitCode |-> item.exit_code]) >>
            ELSE <<>>
        states2 == IF complete THEN MapSet(states1, stateKey, "completed") ELSE states1
    IN  Outcome(output \o started \o completed, lens1, states2)

\* faulty variant: the completion update is not guarded by the item's last state
DispatchCommandUnguarded(item, isCompleted, taskId, contextId, lens, states) ==
    LET stateKey == <<item.id, ":state">>
        outputKey == <<item.id, ":output">>
        lastState == MapGet(states, stateKey)
        started ==
            IF lastState = None
            THEN << ToolUpdate(taskId, contextId,
                      [request |-> [callId |-> item.id, name |-> "command_execution"],
                       status |-> item.status, command |-> item.command]) >>
            ELSE <<>>
        states1 == IF lastState = None THEN MapSet(states, stateKey, "started") ELSE states
        prevLength == SentLength(lens, outputKey)
        deltaOutput == Slice(item.aggregated_output, prevLength)
        hasDelta == item.aggregated_output /= <<>> /\ Len(deltaOutput) > 0
        output ==
            IF hasDelta
            THEN << ToolOutput(taskId, contextId, item.id, deltaOutput, TRUE, isCompleted) >>
            ELSE <<>>
        lens1 == IF hasDelta THEN MapSet(lens, outputKey, Len(item.aggregated_output)) ELSE lens
        completed ==
            IF isCompleted
            THEN << ToolUpdate(taskId, contextId,
                      [request |-> [callId |-> item.id, name |-> "command_execution"],
                       status |-> item.status, command |-> item.command,
                       exitCode |-> item.exit_code]) >>
            ELSE <<>>
        states2 == IF isCompleted THEN MapSet(states1, stateKey, "completed") ELSE states1
    IN  Outcome(started \o output \o completed, lens1, states2)

\* case 'command_execution'
DispatchCommand(item, isCompleted, taskId, contextId, lens, states) ==
    LET stateKey == <<item.id, ":state">>
        outputKey == <<item.id, ":output">>
        lastState == MapGet(states, stateKey)
        started ==
            IF lastState = None
            THEN << ToolUpdate(taskId, contextId,
                      [request |-> [callId |-> item.id, name |-> "command_execution"],
                       status |-> item.status, command |-> item.command]) >>
            ELSE <<>>
        states1 == IF lastState = None THEN MapSet(states, stateKey, "started") ELSE states
        prevLength == SentLength(lens, outputKey)
        deltaOutput == Slice(item.aggregated_output, prevLength)
        hasDelta == item.aggregated_output /= <<>> /\ Len(deltaOutput) > 0
        output ==
            IF hasDelta
            THEN << ToolOutput(taskId, contextId, item.id, deltaOutput, TRUE, isCompleted) >>
            ELSE <<>>
        lens1 == IF hasDelta THEN MapSet(lens, outputKey, Len(item.aggregated_output)) ELSE lens
        complete == isCompleted /\ lastState /= Some("completed")
        completed ==
            IF complete
            THEN << ToolUpdate(taskId, contextId,
                      [request |-> [callId |-> item.id, name |-> "command_execution"],
                       status |-> item.status, command |-> item.command,
                       exitCode |-> item.exit_code]) >>
            ELSE <<>>
        states2 == IF complete THEN MapSet(states1, stateKey, "completed") ELSE states1
    IN  Outcome(started \o output \o completed, lens1, states2)

\* faulty variant: a file change is reported at every event, not only at completion
DispatchFileChangeAlways(item, isCompleted, taskId, contextId, lens, states) ==
    Outcome(<< ToolOutput(taskId, contextId, item.id,
                          stringifyToolOutput([changes |-> item.changes]), FALSE, TRUE),
               ToolUpdate(taskId, contextId,
                 [request |-> [callId |-> item.id, name |-> "file_change"],
                  status |-> item.status, changes |-> item.changes]) >>,
            lens, states)

\* case 'file_change'
DispatchFileChange(item, isCompleted, taskId, contextId, lens, states) ==
    IF isCompleted
    THEN Outcome(<< ToolOutput(taskId, contextId, item.id,
                               stringifyToolOutput([changes |-> item.changes]), FALSE, TRUE),
                    ToolUpdate(taskId, contextId,
                      [request |-> [callId |-> item.id, name |-> "file_change"],
                       status |-> item.status, changes |-> item.changes]) >>,
                 lens, states)
    ELSE Outcome(<<>>, lens, states)

\* faulty variant: every completion event of an MCP tool call reports again
DispatchMcpUnguarded(item, isCompleted, taskId, contextId, lens, states) ==
    LET stateKey == <<item.id, ":state">>
        lastState == MapGet(states, stateKey)
        started ==
            IF lastState = None
            THEN << ToolUpdate(taskId, contextId,
                      [request |-> [callId |-> item.id, name |-> "mcp_tool_call"],
                       status |-> item.status, server |-> item.server,
                       tool |-> item.tool, arguments |-> item.arguments]) >>
            ELSE <<>>
        states1 == IF lastState = None THEN MapSet(states, stateKey, "started") ELSE states
        report ==
            IF ~isCompleted THEN <<>>
            ELSE IF item.error /= None
            THEN << ToolUpdate(taskId, contextId,
                      [request |-> [callId |-> item.id, name |-> "mcp_tool_call"],
                       status |-> "failed", error |-> item.error[1]]) >>
            ELSE IF item.result /= None
            THEN << ToolOutput(taskId, contextId, item.id,
                               stringifyToolOutput(item.result[1]), FALSE, TRUE),
                    ToolUpdate(taskId, contextId,
                      [request |-> [callId |-> item.id, name |-> "mcp_tool_call"],
                       status |-> "completed", result |-> item.result[1],
                       output |-> item.result[1]]) >>
            ELSE <<>>
        states2 == IF isCompleted THEN MapSet(states1, stateKey, "completed") ELSE states1
    IN  Outcome(started \o report, lens, states2)

\* case 'mcp_tool_call'; item.error and item.result are optional
DispatchMcp(item, isCompleted, taskId, contextId, lens, states) ==
    LET stateKey == <<item.id, ":state">>
        lastState == MapGet(states, stateKey)
        started ==
            IF lastState = None
            THEN << ToolUpdate(taskId, contextId,
                      [request |-> [callId |-> item.id, name |-> "mcp_tool_call"],
                       status |-> item.status, server |-> item.server,
                       tool |-> item.tool, arguments |-> item.arguments]) >>
            ELSE <<>>
        states1 == IF lastState = None THEN MapSet(states, stateKey, "started") ELSE states
        complete == isCompleted /\ lastState /= Some("completed")
        report ==
            IF ~complete THEN <<>>
            ELSE IF item.error /= None
            THEN << ToolUpdate(taskId, contextId,
                      [request |-> [callId |-> item.id, name |-> "mcp_tool_call"],
                       status |-> "failed", error |-> item.error[1]]) >>
            ELSE IF item.result /= None
            THEN << ToolOutput(taskId, contextId, item.id,
                               stringifyToolOutput(item.result[1]), FALSE, TRUE),
                    ToolUpdate(taskId, contextId,
                      [request |-> [callId |-> item.id, name |-> "mcp_tool_call"],
                       status |-> "completed", result |-> item.result[1],
                       output |-> item.result[1]]) >>
            ELSE <<>>
        states2 == IF complete THEN MapSet(states1, stateKey, "completed") ELSE states1
    IN  Outcome(started \o report, lens, states2)

\* case 'web_search'
DispatchWebSearch(item, taskId, contextId, lens, states) ==
    Outcome(<< ToolUpdate(taskId, contextId,
                 [request |-> [callId |-> item.id, name |-> "web_search"],
                  status |-> "completed", query |-> item.query]) >>,
            lens, states)

\* faulty variant: a todo list is reported by its tool-update alone
DispatchTodoListNoArtifact(item, taskId, contextId, lens, states) ==
    Outcome(<< ToolUpdate(taskId, contextId,
                 [request |-> [callId |-> item.id, name |-> "todo_list"],
                  status |-> "updated", items |-> item.items]) >>,
            lens, states)

\* case 'todo_list'
DispatchTodoList(item, taskId, contextId, lens, states) ==
    Outcome(<< ToolOutput(taskId, contextId, item.id,
                          stringifyToolOutput([items |-> item.items]), FALSE, TRUE),
               ToolUpdate(taskId, contextId,
                 [request |-> [callId |-> item.id, name |-> "todo_list"],
                  status |-> "updated", items |-> item.items]) >>,
            lens, states)

\* case 'error'
DispatchError(item, taskId, contextId, lens, states) ==
    Outcome(<< TextContent(taskId, contextId, <<"Error: ">> \o item.message) >>, lens, states)

\* the switch over item.type of an item.started / item.updated / item.completed event
DispatchItem(event, taskId, contextId, lens, states) ==
    LET item == event.item
        isCompleted == event.type = "item.completed"
    IN  CASE item.type \in {"agent_message", "reasoning"} ->
                DispatchText(item, taskId, contextId, lens, states)
          [] item.type = "command_execution" ->
                DispatchCommand(item, isCompleted, taskId, contextId, lens, states)
          [] item.type = "file_change" ->
                DispatchFileChange(item, isCompleted, taskId, contextId, lens, states)
          [] item.type = "mcp_tool_call" ->
                DispatchMcp(item, isCompleted, taskId, contextId, lens, states)
          [] item.type = "web_search" ->
                DispatchWebSearch(item, taskId, contextId, lens, states)
          [] item.type = "todo_list" ->
                DispatchTodoList(item, taskId, contextId, lens, states)
          [] item.type = "error" ->
                DispatchError(item, taskId, contextId, lens, states)
          [] OTHER -> Outcome(<<>>, lens, states)

\* turn.started / turn.completed and the item events; turn.failed is the
\* action's own branch because it ends the call
\* faulty variant: turn.completed publishes its status before the usage artifact
DispatchEventStatusFirst(event, taskId, contextId, lens, states) ==
    CASE event.type = "turn.started" ->
            Outcome(<< StatusUpdate(taskId, contextId, "working", FALSE, NoMessage,
                                    "turn-started") >>, lens, states)
      [] event.type = "turn.completed" ->
            Outcome(<< StatusUpdate(taskId, contextId, "working", FALSE, NoMessage,
                                    "turn-completed"),
                       ToolOutput(taskId, contextId, "turn-usage",
                                  stringifyToolOutput([usage |-> event.usage]), FALSE, TRUE)
                    >>, lens, states)
      [] event.type \in ItemEventTypes ->
            DispatchItem(event, taskId, contextId, lens, states)
      [] OTHER -> Outcome(<<>>, lens, states)

DispatchEvent(event, taskId, contextId, lens, states) ==
    CASE event.type = "turn.started" ->
            Outcome(<< StatusUpdate(taskId, contextId, "working", FALSE, NoMessage,
                                    "turn-started") >>, lens, states)
      [] event.type = "turn.completed" ->
            Outcome(<< ToolOutput(taskId, contextId, "turn-usage",
                                  stringifyToolOutput([usage |-> event.usage]), FALSE, TRUE),
                       StatusUpdate(taskId, contextId, "working", FALSE, NoMessage,
                                    "turn-completed") >>, lens, states)
      [] event.type \in ItemEventTypes ->
            DispatchItem(event, taskId, contextId, lens, states)
      [] OTHER -> Outcome(<<>>, lens, states)

\* the loop of execute run on the first n events of x.seen with maps of its own:
\* what it publishes and the maps it is left with
RECURSIVE LoopAlone(_, _)
LoopAlone(x, n) ==
    IF n = 0 THEN Outcome(<<>>, EmptyMap, EmptyMap)
    ELSE LET before == LoopAlone(x, n - 1)
             out == DispatchEvent(x.seen[n], x.taskId, x.contextId,
                                  before.lens, before.states)
         IN  Outcome(before.updates \o out.updates, out.lens, out.states)

\* ------------------------------------------------------------------ state
StartCalls == 1..MaxStarts
StopCalls == 1..MaxStops

VARIABLES
    threads,            \* Map<contextId, thread>; a thread is its creation number
    threadWorkingDirs,  \* Map<contextId, thread key>
    canceledTasks,      \* Set<taskId>
    taskContexts,       \* Map<taskId, contextId>
    startThreadArgs,    \* the options of every codex.startThread call, in order
    published,          \* per task id: what was passed to eventBus.publish, in order
    publisher,          \* per task id: which call published each entry (0: cancelTask)
    finished,           \* per task id: eventBus.finished() was called
    execs,              \* the execute calls: position and locals of each
    cancelCalls,        \* per task id: number of cancelTask calls made
    server,             \* CodexA2AServer.server: 0 (null) or the number of a listener
    serverUrl,          \* CodexA2AServer.serverUrl: None (null) or the URL
    requestHandler,     \* CodexA2AServer.requestHandler: 0 (null) or the number of
                        \* the executor the handler was built on
    running,            \* CodexA2AServer.running
    listeners,          \* the http servers start() created, in order: port and state
    executors,          \* number of CodexExecutor objects start() constructed
    probes,             \* the ports findAvailablePort's probe servers are bound to
    starts,             \* the start() calls: position and locals of each
    stops               \* the stop() calls: position and locals of each

\* the state of the executor and the state of the server around it
executorVars == <<threads, threadWorkingDirs, canceledTasks, taskContexts, startThreadArgs,
                  published, publisher, finished, execs, cancelCalls>>
serverVars == <<server, serverUrl, requestHandler, running, listeners, executors,
                probes, starts, stops>>
vars == <<executorVars, serverVars>>

\* an execute call that has not been made yet
IdleExec ==
    [pc |-> "idle", exit |-> "",
     taskId |-> "", contextId |-> "", userMessage |-> [parts |-> <<>>],  \* requestContext
     acquired |-> FALSE,        \* the call reached the thread lookup
     currentWorkingDir |-> <<>>, thread |-> 0, text |-> <<>>,
     sentTextLengths |-> EmptyMap, sentItemStates |-> EmptyMap,
     nEvents |-> 0,             \* events the stream has yielded
     hasTask |-> FALSE,         \* requestContext.task was present
     seen |-> <<>>]             \* the events the loop has dispatched, in order

\* a start() call that has not been made yet
IdleStart ==
    [pc |-> "idle", exit |-> "",
     overlapped |-> FALSE,      \* at the call the server was running or starting
     port |-> 0,                \* the port findAvailablePort is trying or has found
     listener |-> 0]            \* the http server this call created, 0 if none


Init ==
    /\ threads = EmptyMap
    /\ threadWorkingDirs = EmptyMap
    /\ canceledTasks = {}
    /\ taskContexts = EmptyMap
    /\ startThreadArgs = <<>>
    /\ published = [t \in Tasks |-> <<>>]
    /\ publisher = [t \in Tasks |-> <<>>]
    /\ finished = [t \in Tasks |-> FALSE]
    /\ execs = [e \in Execs |-> IdleExec]
    /\ cancelCalls = [t \in Tasks |-> 0]
    /\ server = 0
    /\ serverUrl = None
    /\ requestHandler = 0
    /\ running = FALSE
    /\ listeners = <<>>
    /\ executors = 0
    /\ probes = {}
    /\ starts = [c \in StartCalls |-> IdleStart]
    /\ stops = [k \in StopCalls |-> [pc |-> "idle", listener |-> 0]]

RECURSIVE SumOver(_, _)
SumOver(f, S) ==
    IF S = {} THEN 0
    ELSE LET x == CHOOSE y \in S : TRUE IN f[x] + SumOver(f, S \ {x})

\* eventBus.publish of `updates` by call `who` on the bus of task `taskId`
Publish(taskId, who, updates) ==
    /\ published' = [published EXCEPT ![taskId] = @ \o updates]
    /\ publisher' = [publisher EXCEPT ![taskId] = @ \o [i \in 1..Len(updates) |-> who]]

\* the updates every execute call opens with
\* faulty variant: the Task is published whether or not the request carries one
OpeningAlwaysTask(taskId, contextId, userMessage, hasTask) ==
    << InitialTask(taskId, contextId, userMessage),
       StatusUpdate(taskId, contextId, "working", FALSE, NoMessage, "state-change") >>

Opening(taskId, contextId, userMessage, hasTask) ==
    (IF hasTask THEN <<>> ELSE << InitialTask(taskId, contextId, userMessage) >>)
    \o << StatusUpdate(taskId, contextId, "working", FALSE, NoMessage, "state-change") >>

\* execute, entry: task id already canceled
ExecuteCanceledAtEntry(e, taskId, contextId, userMessage, hasTask) ==
    /\ taskId \in canceledTasks
    /\ Publish(taskId, e, Opening(taskId, contextId, userMessage, hasTask)
                          \o << Canceled(taskId, Some(contextId)) >>)
    /\ canceledTasks' = canceledTasks \ {taskId}
    /\ taskContexts' = MapDelete(MapSet(taskContexts, taskId, contextId), taskId)
    /\ execs' = [execs EXCEPT ![e] = [IdleExec EXCEPT !.pc = "done", !.taskId = taskId,
                                        !.contextId = contextId,
                                        !.userMessage = userMessage,
                                        !.hasTask = hasTask,
                                        !.exit = "canceled"]]
    /\ UNCHANGED <<threads, threadWorkingDirs, startThreadArgs, finished, cancelCalls>>

\* faulty variant: the failure on an empty message also drops the context's thread
ExecuteNoTextDropsThread(e, taskId, contextId, userMessage, hasTask) ==
    /\ taskId \notin canceledTasks
    /\ ExtractText(userMessage) = <<>>
    /\ Publish(taskId, e, Opening(taskId, contextId, userMessage, hasTask)
                          \o << Failure(taskId, contextId, <<"No text content">>) >>)
    /\ finished' = [finished EXCEPT ![taskId] = TRUE]
    /\ taskContexts' = MapSet(taskContexts, taskId, contextId)
    /\ threads' = MapDelete(threads, contextId)
    /\ execs' = [execs EXCEPT ![e] = [IdleExec EXCEPT !.pc = "done", !.taskId = taskId,
                                        !.contextId = contextId,
                                        !.userMessage = userMessage,
                                        !.hasTask = hasTask,
                                        !.exit = "failed"]]
    /\ UNCHANGED <<threadWorkingDirs, canceledTasks, startThreadArgs, cancelCalls>>

\* execute, entry: no text in the message
ExecuteNoText(e, taskId, contextId, userMessage, hasTask) ==
    /\ taskId \notin canceledTasks
    /\ ExtractText(userMessage) = <<>>
    /\ Publish(taskId, e, Opening(taskId, contextId, userMessage, hasTask)
                          \o << Failure(taskId, contextId, <<"No text content">>) >>)
    /\ finished' = [finished EXCEPT ![taskId] = TRUE]
    /\ taskContexts' = MapSet(taskContexts, taskId, contextId)
    /\ execs' = [execs EXCEPT ![e] = [IdleExec EXCEPT !.pc = "done", !.taskId = taskId,
                                        !.contextId = contextId,
                                        !.userMessage = userMessage,
                                        !.hasTask = hasTask,
                                        !.exit = "failed"]]
    /\ UNCHANGED <<threads, threadWorkingDirs, canceledTasks, startThreadArgs, cancelCalls>>

\* faulty variant: the cached thread is never reused
AlwaysNewThread(thread, cachedThreadKey, existingThreadKey) == TRUE

\* `if (thread && cachedThreadKey !== existingThreadKey) {...}  if (!thread) {...}`:
\* whether execute calls codex.startThread
NeedsNewThread(thread, cachedThreadKey, existingThreadKey) ==
    LET stale == thread /= None /\ cachedThreadKey /= Some(existingThreadKey)
    IN  thread = None \/ stale

\* faulty variant: a thread that replaces a stale one is stored under the old key
ExecuteAcquireKeepsKey(e, taskId, contextId, userMessage, hasTask, configOverride, workingDirOverride) ==
    LET text == ExtractText(userMessage)
        config == resolveConfig(configOverride)
        workingDir == EffectiveWorkingDir(workingDirOverride, config)
        currentWorkingDir == CurrentWorkingDir(workingDir)
        existingThreadKey == ThreadKey(contextId, currentWorkingDir)
        cachedThreadKey == MapGet(threadWorkingDirs, contextId)
        create == NeedsNewThread(MapGet(threads, contextId), cachedThreadKey,
                                 existingThreadKey)
        newThread == Len(startThreadArgs) + 1
        thread == IF create THEN newThread ELSE threads[contextId]
    IN  /\ taskId \notin canceledTasks
        /\ text /= <<>>
        /\ Publish(taskId, e, Opening(taskId, contextId, userMessage, hasTask))
        /\ taskContexts' = MapSet(taskContexts, taskId, contextId)
        /\ threads' = IF create THEN MapSet(threads, contextId, newThread) ELSE threads
        /\ threadWorkingDirs' =
              IF create /\ ~MapHas(threadWorkingDirs, contextId)
              THEN MapSet(threadWorkingDirs, contextId, existingThreadKey)
              ELSE threadWorkingDirs
        /\ startThreadArgs' =
              IF create THEN Append(startThreadArgs, ThreadOptions(config, workingDir))
              ELSE startThreadArgs
        /\ execs' = [execs EXCEPT ![e] =
              [IdleExec EXCEPT !.pc = "awaitRun", !.taskId = taskId,
                               !.contextId = contextId, !.userMessage = userMessage,
                               !.hasTask = hasTask, !.acquired = TRUE,
                               !.currentWorkingDir = currentWorkingDir,
                               !.thread = thread, !.text = text]]
        /\ UNCHANGED <<canceledTasks, finished, cancelCalls>>

\* execute, entry: thread lookup or creation, up to the await of runStreamed
ExecuteAcquire(e, taskId, contextId, userMessage, hasTask, configOverride, workingDirOverride) ==
    LET text == ExtractText(userMessage)
        config == resolveConfig(configOverride)
        workingDir == EffectiveWorkingDir(workingDirOverride, config)
        currentWorkingDir == CurrentWorkingDir(workingDir)
        existingThreadKey == ThreadKey(contextId, currentWorkingDir)
        cachedThreadKey == MapGet(threadWorkingDirs, contextId)
        create == NeedsNewThread(MapGet(threads, contextId), cachedThreadKey,
                                 existingThreadKey)
        newThread == Len(startThreadArgs) + 1
        thread == IF create THEN newThread ELSE threads[contextId]
    IN  /\ taskId \notin canceledTasks
        /\ text /= <<>>
        /\ Publish(taskId, e, Opening(taskId, contextId, userMessage, hasTask))
        /\ taskContexts' = MapSet(taskContexts, taskId, contextId)
        /\ threads' = IF create THEN MapSet(threads, contextId, newThread) ELSE threads
        /\ threadWorkingDirs' =
              IF create THEN MapSet(threadWorkingDirs, contextId, existingThreadKey)
              ELSE threadWorkingDirs
        /\ startThreadArgs' =
              IF create THEN Append(startThreadArgs, ThreadOptions(config, workingDir))
              ELSE startThreadArgs
        /\ execs' = [execs EXCEPT ![e] =
              [IdleExec EXCEPT !.pc = "awaitRun", !.taskId = taskId,
                               !.contextId = contextId, !.userMessage = userMessage,
                               !.hasTask = hasTask, !.acquired = TRUE,
                               !.currentWorkingDir = currentWorkingDir,
                               !.thread = thread, !.text = text]]
        /\ UNCHANGED <<canceledTasks, finished, cancelCalls>>

\* `this.getConfig = getConfig ?? (() => ({}))`: what this.getConfig(contextId)
\* returns when the caller passed its override callback, returning `returned`,
\* to the constructor under the option name callbackName
ConfigOverrideOf(callbackName, returned) ==
    IF callbackName = "getConfig" THEN returned ELSE EmptyMap

\* an execute call on contextId has started and not returned
LiveOn(contextId) ==
    \E d \in Execs : execs[d].pc \in {"awaitRun", "streaming"} /\ execs[d].contextId = contextId

\* the synchronous first part of execute(requestContext, eventBus); the request
\* and what the two option callbacks return are drawn from the input sets of P;
\* P.contextsOf gives the contexts a task id may arrive with, P.callbackName the
\* option name under which the caller passed the config callback.
\* P.serial is the calling contract of at most one live execution per context.
Execute(e, P) ==
    /\ execs[e].pc = "idle"
    /\ \A d \in Execs : d < e => execs[d].pc /= "idle"
    /\ \E taskId \in P.tasks, contextId \in P.contexts, userMessage \in P.messages,
          hasTask \in P.hasTask, configOverride \in P.configs,
          workingDirOverride \in P.dirs :
         /\ contextId \in P.contextsOf[taskId]
         /\ P.serial => ~LiveOn(contextId)
         /\ \/ ExecuteCanceledAtEntry(e, taskId, contextId, userMessage, hasTask)
            \/ ExecuteNoText(e, taskId, contextId, userMessage, hasTask)
            \/ ExecuteAcquire(e, taskId, contextId, userMessage, hasTask,
                               ConfigOverrideOf(P.callbackName, configOverride),
                               workingDirOverride)
    /\ UNCHANGED serverVars

\* faulty variant: the two maps live with the thread, so a call on a reused
\* thread starts from the maps the call before it on that thread ended with
RunStreamedInheritedMaps(e) ==
    LET earlier == { d \in Execs : /\ d < e /\ execs[d].acquired
                                   /\ execs[d].thread = execs[e].thread }
        d == CHOOSE d \in earlier : \A c \in earlier : c <= d
        left == LoopAlone(execs[d], Len(execs[d].seen))
    IN  /\ execs[e].pc = "awaitRun"
        /\ execs' = [execs EXCEPT
              ![e].pc = "streaming",
              ![e].sentTextLengths = IF earlier = {} THEN EmptyMap ELSE left.lens,
              ![e].sentItemStates = IF earlier = {} THEN EmptyMap ELSE left.states]
        /\ UNCHANGED <<threads, threadWorkingDirs, canceledTasks, taskContexts,
                       startThreadArgs, published, publisher, finished, cancelCalls>>
        /\ UNCHANGED serverVars

\* faulty variant: the two maps are shared by the calls that are reading a stream
RunStreamedSharedMaps(e) ==
    LET others == { d \in Execs : execs[d].pc = "streaming" }
        d == CHOOSE d \in others : TRUE
    IN  /\ execs[e].pc = "awaitRun"
        /\ execs' = [execs EXCEPT
              ![e].pc = "streaming",
              ![e].sentTextLengths = IF others = {} THEN EmptyMap
                                     ELSE execs[d].sentTextLengths,
              ![e].sentItemStates = IF others = {} THEN EmptyMap
                                    ELSE execs[d].sentItemStates]
        /\ UNCHANGED <<threads, threadWorkingDirs, canceledTasks, taskContexts,
                       startThreadArgs, published, publisher, finished, cancelCalls>>
        /\ UNCHANGED serverVars

\* `await thread.runStreamed(text)` resolves; the two local maps are created
RunStreamed(e) ==
    /\ execs[e].pc = "awaitRun"
    /\ execs' = [execs EXCEPT ![e].pc = "streaming",
                              ![e].sentTextLengths = EmptyMap,
                              ![e].sentItemStates = EmptyMap]
    /\ UNCHANGED <<threads, threadWorkingDirs, canceledTasks, taskContexts,
                   startThreadArgs, published, publisher, finished, cancelCalls>>
    /\ UNCHANGED serverVars

\* faulty variant: the code after the loop returns without the Completed update
StreamEndSilent(e) ==
    LET x == execs[e] IN
    /\ x.pc = "streaming"
    /\ execs' = [execs EXCEPT ![e] = [x EXCEPT !.pc = "done", !.exit = "completed"]]
    /\ UNCHANGED <<threads, threadWorkingDirs, canceledTasks, taskContexts,
                   startThreadArgs, published, publisher, finished, cancelCalls>>
    /\ UNCHANGED serverVars

\* faulty variant: the call records its exit but goes on reading the stream
ReturnedStillStreaming(x, exit) == [x EXCEPT !.exit = exit]

\* what remains of an execute call once it has returned
Returned(x, exit) ==
    [x EXCEPT !.pc = "done", !.exit = exit,
              !.sentTextLengths = EmptyMap, !.sentItemStates = EmptyMap]

\* one iteration of `for await (const event of events)`: the stream yields event
NextEvent(e, P) ==
    LET x == execs[e] IN
    /\ x.pc = "streaming"
    /\ x.nEvents < P.maxEvents
    /\ \E event \in P.events :
        IF x.taskId \in canceledTasks
        THEN /\ Publish(x.taskId, e, << Canceled(x.taskId, Some(x.contextId)) >>)
             /\ canceledTasks' = canceledTasks \ {x.taskId}
             /\ taskContexts' = MapDelete(taskContexts, x.taskId)
             /\ execs' = [execs EXCEPT ![e] = Returned(x, "canceled")]
             /\ UNCHANGED finished
        ELSE IF event.type = "turn.failed"
        THEN /\ Publish(x.taskId, e, << Failure(x.taskId, x.contextId, event.error.message) >>)
             /\ finished' = [finished EXCEPT ![x.taskId] = TRUE]
             /\ execs' = [execs EXCEPT ![e] =
                            Returned([x EXCEPT !.seen = Append(@, event)], "failed")]
             /\ UNCHANGED <<canceledTasks, taskContexts>>
        ELSE LET out == DispatchEvent(event, x.taskId, x.contextId,
                                      x.sentTextLengths, x.sentItemStates)
             IN  /\ Publish(x.taskId, e, out.updates)
                 /\ execs' = [execs EXCEPT ![e].nEvents = @ + 1,
                                           ![e].seen = Append(@, event),
                                           ![e].sentTextLengths = out.lens,
                                           ![e].sentItemStates = out.states]
                 /\ UNCHANGED <<canceledTasks, taskContexts, finished>>
    /\ UNCHANGED <<threads, threadWorkingDirs, startThreadArgs, cancelCalls>>
    /\ UNCHANGED serverVars

\* the stream is exhausted: the code after the loop
StreamEnd(e) ==
    LET x == execs[e] IN
    /\ x.pc = "streaming"
    /\ Publish(x.taskId, e, << StatusUpdate(x.taskId, x.contextId, "completed", TRUE,
                                            NoMessage, "state-change") >>)
    /\ finished' = [finished EXCEPT ![x.taskId] = TRUE]
    /\ execs' = [execs EXCEPT ![e] = Returned(x, "completed")]
    /\ UNCHANGED <<threads, threadWorkingDirs, canceledTasks, taskContexts,
                   startThreadArgs, cancelCalls>>
    /\ UNCHANGED serverVars

\* faulty variant: publishCanceled leaves the task id in the cancellation set
CancelTaskKeepsMark(taskId, P) ==
    /\ SumOver(cancelCalls, Tasks) < P.cancels
    /\ cancelCalls' = [cancelCalls EXCEPT ![taskId] = @ + 1]
    /\ LET marked == canceledTasks \cup {taskId}
           contextId == MapGet(taskContexts, taskId)
       IN  /\ Publish(taskId, 0, << Canceled(taskId, contextId) >>)
           /\ canceledTasks' = marked
           /\ taskContexts' = MapDelete(taskContexts, taskId)
    /\ finished' = [finished EXCEPT ![taskId] = TRUE]
    /\ UNCHANGED <<threads, threadWorkingDirs, startThreadArgs, execs>>
    /\ UNCHANGED serverVars

\* cancelTask(taskId, eventBus): it has no await, so it runs as one step
CancelTask(taskId, P) ==
    /\ SumOver(cancelCalls, Tasks) < P.cancels
    /\ cancelCalls' = [cancelCalls EXCEPT ![taskId] = @ + 1]
    /\ LET marked == canceledTasks \cup {taskId}
           contextId == MapGet(taskContexts, taskId)
       IN  /\ Publish(taskId, 0, << Canceled(taskId, contextId) >>)
           /\ canceledTasks' = marked \ {taskId}
           /\ taskContexts' = MapDelete(taskContexts, taskId)
    /\ finished' = [finished EXCEPT ![taskId] = TRUE]
    /\ UNCHANGED <<threads, threadWorkingDirs, startThreadArgs, execs>>
    /\ UNCHANGED serverVars

\* ------------------------------------------------------- CodexA2AServer
DEFAULT_PORT == 50002


\* a listen(port) call fails: a probe server or a listener holds the port
PortBusy(port) ==
    \/ port \in probes
    \/ \E l \in DOMAIN listeners :
          listeners[l].port = port /\ listeners[l].state \in {"binding", "listening"}


\* findAvailablePort(port), its synchronous part: the probe server is created
\* and listen(port) is called on it
Probe(x, port) ==
    IF PortBusy(port) THEN [x EXCEPT !.pc = "probeError", !.port = port]
    ELSE [x EXCEPT !.pc = "probeListening", !.port = port]

\* start(), up to `await this.resolveCodex()`
StartCall(c) ==
    /\ starts[c].pc = "idle"
    /\ \A d \in StartCalls : d < c => starts[d].pc /= "idle"
    /\ starts' = [starts EXCEPT ![c] =
          IF running THEN [@ EXCEPT !.pc = "done", !.exit = "returned", !.overlapped = TRUE]
          ELSE [@ EXCEPT !.pc = "resolveCodex",
                         !.overlapped = \E d \in StartCalls : starts[d].pc \notin {"idle", "done"}]]
    /\ UNCHANGED <<server, serverUrl, requestHandler, running, listeners, executors,
                   probes, stops>>
    /\ UNCHANGED executorVars

\* resolveCodex() resolves; findAvailablePort(this.options.port ?? DEFAULT_PORT)
ResolveCodex(c) ==
    /\ starts[c].pc = "resolveCodex"
    /\ starts' = [starts EXCEPT ![c] = Probe(@, DEFAULT_PORT)]
    /\ probes' = IF PortBusy(DEFAULT_PORT) THEN probes ELSE probes \cup {DEFAULT_PORT}
    /\ UNCHANGED <<server, serverUrl, requestHandler, running, listeners, executors, stops>>
    /\ UNCHANGED executorVars

\* the probe's 'error' handler: resolve(this.findAvailablePort(startPort + 1))
ProbeError(c) ==
    LET next == starts[c].port + 1 IN
    /\ starts[c].pc = "probeError"
    /\ starts' = [starts EXCEPT ![c] = Probe(@, next)]
    /\ probes' = IF PortBusy(next) THEN probes ELSE probes \cup {next}
    /\ UNCHANGED <<server, serverUrl, requestHandler, running, listeners, executors, stops>>
    /\ UNCHANGED executorVars

\* the probe's listen callback: server.close(() => resolve(startPort))
ProbeListening(c) ==
    /\ starts[c].pc = "probeListening"
    /\ starts' = [starts EXCEPT ![c].pc = "probeClosing"]
    /\ probes' = probes \ {starts[c].port}
    /\ UNCHANGED <<server, serverUrl, requestHandler, running, listeners, executors, stops>>
    /\ UNCHANGED executorVars

\* the probe's close callback resolves the port; start() goes on to construct
\* the executor and the request handler, to create the http server and to call
\* listen(port) on it
CreateServer(c) ==
    LET port == starts[c].port
        created == Len(listeners) + 1
    IN  /\ starts[c].pc = "probeClosing"
        /\ executors' = executors + 1
        /\ requestHandler' = executors + 1
        /\ listeners' = Append(listeners,
              [port |-> port, state |-> IF PortBusy(port) THEN "failing" ELSE "binding"])
        /\ server' = created
        /\ starts' = [starts EXCEPT ![c].pc = "listen", ![c].listener = created]
        /\ UNCHANGED <<serverUrl, running, probes, stops>>
        /\ UNCHANGED executorVars

\* the outcome of this.server.listen: the listen callback, or the 'error'
\* handler when the port was taken
Listen(c) ==
    LET l == starts[c].listener IN
    /\ starts[c].pc = "listen"
    /\ IF listeners[l].state = "binding"
       THEN /\ serverUrl' = Some(<<"http://localhost:", listeners[l].port>>)
            /\ running' = TRUE
            /\ listeners' = [listeners EXCEPT ![l].state = "listening"]
            /\ starts' = [starts EXCEPT ![c].pc = "done", ![c].exit = "resolved"]
       ELSE /\ running' = FALSE
            /\ listeners' = [listeners EXCEPT ![l].state = "failed"]
            /\ starts' = [starts EXCEPT ![c].pc = "done", ![c].exit = "rejected"]
            /\ UNCHANGED serverUrl
    /\ UNCHANGED <<server, requestHandler, executors, probes, stops>>
    /\ UNCHANGED executorVars

\* stop(), up to the await of this.server.close; close() on a listening server
\* releases its port.  stop() is not called while the listen call of
\* this.server is pending.
StopCall(k) ==
    /\ stops[k].pc = "idle"
    /\ \A j \in StopCalls : j < k => stops[j].pc /= "idle"
    /\ server /= 0 => listeners[server].state \notin {"binding", "failing"}
    /\ IF server = 0
       THEN /\ stops' = [stops EXCEPT ![k].pc = "done"]
            /\ UNCHANGED listeners
       ELSE /\ stops' = [stops EXCEPT ![k].pc = "closing", ![k].listener = server]
            /\ listeners' = [listeners EXCEPT ![server].state =
                                IF @ = "listening" THEN "closed" ELSE @]
    /\ UNCHANGED <<server, serverUrl, requestHandler, running, executors, probes, starts>>
    /\ UNCHANGED executorVars

\* the close callback resolves; stop() clears the fields
StopClosed(k) ==
    /\ stops[k].pc = "closing"
    /\ server' = 0
    /\ serverUrl' = None
    /\ running' = FALSE
    /\ requestHandler' = 0
    /\ stops' = [stops EXCEPT ![k].pc = "done"]
    /\ UNCHANGED <<listeners, executors, probes, starts>>
    /\ UNCHANGED executorVars

\* the steps of start() and stop() calls on one CodexA2AServer
NextServer ==
    \/ \E c \in StartCalls : StartCall(c)
    \/ \E c \in StartCalls : ResolveCodex(c)
    \/ \E c \in StartCalls : ProbeError(c)
    \/ \E c \in StartCalls : ProbeListening(c)
    \/ \E c \in StartCalls : CreateServer(c)
    \/ \E c \in StartCalls : Listen(c)
    \/ \E k \in StopCalls : StopCall(k)
    \/ \E k \in StopCalls : StopClosed(k)

SpecServer == Init /\ [][NextServer]_vars

\* the steps of the executor under the inputs and bounds of P
NextOf(P) ==
    \/ \E e \in 1..P.execs : Execute(e, P)
    \/ \E e \in Execs : RunStreamed(e)
    \/ \E e \in Execs : NextEvent(e, P)
    \/ \E e \in Execs : StreamEnd(e)
    \/ \E t \in P.tasks : CancelTask(t, P)

\* the steps of the execute calls alone: cancelTask is never called
QuietOf(P) ==
    \/ \E e \in 1..P.execs : Execute(e, P)
    \/ \E e \in Execs : RunStreamed(e)
    \/ \E e \in Execs : NextEvent(e, P)
    \/ \E e \in Execs : StreamEnd(e)

HiMessage == [parts |-> <<TextPart(<<"H", "i">>)>>]
AgentMessageDone(id, text) == ItemEvent("item.completed", TextItem("agent_message", id, text))

\* execute and cancelTask calls racing on two tasks of one context
Lifecycle ==
    [tasks |-> Tasks, contexts |-> {"c1"},
     messages |-> { [parts |-> <<>>], HiMessage },
     hasTask |-> {FALSE}, configs |-> {EmptyMap}, dirs |-> {None},
     events |-> { TurnStarted, TurnFailed(<<"boom">>), AgentMessageDone("i1", <<"a">>) },
     execs |-> MaxExecs, maxEvents |-> MaxEvents, cancels |-> MaxCancels,
     serial |-> FALSE,
     contextsOf |-> [t \in Tasks |-> Contexts], callbackName |-> "getConfig"]

\* one execute call at a time, translating a stream of every kind of turn event
Translate ==
    [tasks |-> {"t1"}, contexts |-> {"c1"},
     messages |-> { [parts |-> <<>>], HiMessage }, hasTask |-> {FALSE},
     configs |-> {EmptyMap}, dirs |-> {None},
     events |-> { TurnStarted, TurnCompleted, TurnFailed(<<"boom">>),
                  AgentMessageDone("i1", <<"a">>) },
     execs |-> OneExec, maxEvents |-> MaxEvents, cancels |-> FewCancels,
     serial |-> TRUE,
     contextsOf |-> [t \in Tasks |-> Contexts], callbackName |-> "getConfig"]

\* one execute call at a time over every shape of request
Inputs ==
    [tasks |-> {"t1"}, contexts |-> Contexts,
     messages |-> UserMessages, hasTask |-> BOOLEAN,
     configs |-> {EmptyMap}, dirs |-> {None},
     events |-> { TurnStarted },
     execs |-> OneExec, maxEvents |-> FewEvents, cancels |-> FewCancels,
     serial |-> TRUE,
     contextsOf |-> [t \in Tasks |-> Contexts], callbackName |-> "getConfig"]

\* executions of one context after another under every working directory and
\* config override
Sessions ==
    [tasks |-> {"t1"}, contexts |-> {"c1"},
     messages |-> { [parts |-> <<>>], HiMessage }, hasTask |-> {TRUE},
     configs |-> { EmptyMap, [workingDirectory |-> Some(<<"/b">>)] },
     dirs |-> { None, Some(<<" ">>), Some(<<"/a">>), Some(<<" ", "/a", " ">>) },
     events |-> { TurnStarted },
     execs |-> MaxExecs, maxEvents |-> FewEvents, cancels |-> FewCancels,
     serial |-> TRUE,
     contextsOf |-> [t \in Tasks |-> Contexts], callbackName |-> "getConfig"]

\* one execute call at a time and no cancelTask call: streams of turn events and
\* one agent message, long enough to hold a whole turn
Ordering ==
    [tasks |-> {"t1"}, contexts |-> {"c1"},
     messages |-> { HiMessage }, hasTask |-> BOOLEAN,
     configs |-> {EmptyMap}, dirs |-> {None},
     events |-> { TurnStarted, TurnCompleted, AgentMessageDone("i1", <<"a">>),
                  TurnFailed(<<"boom">>), TurnFailed(<<"bang">>) },
     execs |-> OneExec, maxEvents |-> ManyEvents, cancels |-> 0,
     serial |-> TRUE,
     contextsOf |-> [t \in Tasks |-> Contexts], callbackName |-> "getConfig"]

\* one execute call at a time and no cancelTask call: an agent message i1 and a
\* reasoning item i2 whose texts grow, repeat, shrink or change
Deltas ==
    [tasks |-> {"t1"}, contexts |-> {"c1"},
     messages |-> { HiMessage }, hasTask |-> {TRUE},
     configs |-> {EmptyMap}, dirs |-> {None},
     events |-> { ItemEvent("item.started", TextItem("agent_message", "i1", t)) :
                    t \in { <<>>, <<"a">> } }
                \cup { ItemEvent("item.updated", TextItem("agent_message", "i1", t)) :
                    t \in { <<"a", "b">>, <<"b">> } }
                \cup { ItemEvent("item.completed", TextItem("agent_message", "i1", <<"a", "b">>)) }
                \cup { ItemEvent("item.updated", TextItem("reasoning", "i2", t)) :
                    t \in { <<"a">>, <<"a", "b">> } },
     execs |-> OneExec, maxEvents |-> MaxEvents, cancels |-> 0,
     serial |-> TRUE,
     contextsOf |-> [t \in Tasks |-> Contexts], callbackName |-> "getConfig"]

\* one execute call at a time and no cancelTask call: a command x1 and an MCP
\* tool call m1, started, updated and completed any number of times
Tools ==
    [tasks |-> {"t1"}, contexts |-> {"c1"},
     messages |-> { HiMessage }, hasTask |-> {TRUE},
     configs |-> {EmptyMap}, dirs |-> {None},
     events |-> { ItemEvent("item.started", CommandItem("x1", "in_progress", <<>>, None)),
                  ItemEvent("item.updated", CommandItem("x1", "in_progress", <<"o">>, None)),
                  ItemEvent("item.completed", CommandItem("x1", "completed", <<"o">>, Some(0))),
                  ItemEvent("item.started", McpItem("m1", "in_progress", None, None)),
                  ItemEvent("item.completed",
                            McpItem("m1", "failed", Some([message |-> <<"no">>]), None)),
                  ItemEvent("item.completed", McpItem("m1", "completed", None, Some("r"))),
                  ItemEvent("item.completed", McpItem("m1", "completed", None, None)) },
     execs |-> OneExec, maxEvents |-> MaxEvents, cancels |-> 0,
     serial |-> TRUE,
     contextsOf |-> [t \in Tasks |-> Contexts], callbackName |-> "getConfig"]

\* one execute call at a time and no cancelTask call: streams in which no turn fails
Finishing ==
    [tasks |-> {"t1"}, contexts |-> {"c1"},
     messages |-> { HiMessage }, hasTask |-> BOOLEAN,
     configs |-> {EmptyMap}, dirs |-> {None},
     events |-> { TurnStarted, TurnCompleted, AgentMessageDone("i1", <<"a">>) },
     execs |-> OneExec, maxEvents |-> ManyEvents, cancels |-> 0,
     serial |-> TRUE,
     contextsOf |-> [t \in Tasks |-> Contexts], callbackName |-> "getConfig"]

\* what the callback of `resolves config and working directory overrides` returns
TestThreadOptions ==
    [networkAccessEnabled |-> FALSE, webSearchEnabled |-> FALSE,
     sandboxMode |-> "read-only", approvalPolicy |-> "never"]

\* the executor as that test and CodexA2AServer.start construct it: the override
\* callback is passed under the name getThreadOptions, with getWorkingDirectory
Overrides ==
    [tasks |-> Tasks, contexts |-> Contexts,
     messages |-> { [parts |-> <<>>], HiMessage }, hasTask |-> BOOLEAN,
     configs |-> { TestThreadOptions }, dirs |-> { Some(<<"/tmp/project">>) },
     events |-> { TurnStarted },
     execs |-> MaxExecs, maxEvents |-> FewEvents, cancels |-> FewCancels,
     serial |-> TRUE,
     contextsOf |-> [t \in Tasks |-> Contexts], callbackName |-> "getThreadOptions"]

\* task t1 on context c1 and task t2 on context c2, their execute calls
\* interleaved at every await, no cancelTask call; both streams report the same
\* item id
Concurrent ==
    [tasks |-> Tasks, contexts |-> Contexts,
     messages |-> { HiMessage }, hasTask |-> {FALSE},
     configs |-> {EmptyMap}, dirs |-> {None},
     events |-> { ItemEvent("item.updated", TextItem("agent_message", "i1", <<"a">>)),
                  ItemEvent("item.completed", TextItem("agent_message", "i1", <<"a", "b">>)) },
     execs |-> MaxExecs, maxEvents |-> MaxEvents, cancels |-> 0,
     serial |-> TRUE,
     contextsOf |-> [t \in Tasks |-> IF t = "t1" THEN {"c1"} ELSE {"c2"}],
     callbackName |-> "getConfig"]

\* execute calls one after another on one context and one working directory, so
\* that the thread is reused; every stream reports the same agent message i1
\* and the same command x1; no cancelTask call
Reuse ==
    [tasks |-> {"t1"}, contexts |-> {"c1"},
     messages |-> { HiMessage }, hasTask |-> {TRUE},
     configs |-> {EmptyMap}, dirs |-> {None},
     events |-> { ItemEvent("item.updated", TextItem("agent_message", "i1", <<"a">>)),
                  ItemEvent("item.completed", TextItem("agent_message", "i1", <<"a", "b">>)),
                  ItemEvent("item.started", CommandItem("x1", "in_progress", <<>>, None)) },
     execs |-> MaxExecs, maxEvents |-> MaxEvents, cancels |-> 0,
     serial |-> TRUE,
     contextsOf |-> [t \in Tasks |-> Contexts], callbackName |-> "getConfig"]

\* executions of one context after another whose working directory comes from
\* the getWorkingDirectory callback alone: absent, blank, "/a", or "/a" with
\* spaces around it; the config carries no working directory
Directories ==
    [tasks |-> {"t1"}, contexts |-> {"c1"},
     messages |-> { [parts |-> <<>>], HiMessage }, hasTask |-> {TRUE},
     configs |-> { EmptyMap },
     dirs |-> { None, Some(<<" ">>), Some(<<"/a">>), Some(<<" ", "/a", " ">>) },
     events |-> { TurnStarted },
     execs |-> MaxExecs, maxEvents |-> FewEvents, cancels |-> FewCancels,
     serial |-> TRUE,
     contextsOf |-> [t \in Tasks |-> Contexts], callbackName |-> "getConfig"]

\* one execute call at a time and no cancelTask call: a file change f1 and a
\* todo list d1, each started, updated and completed any number of times
Records ==
    [tasks |-> {"t1"}, contexts |-> {"c1"},
     messages |-> { HiMessage }, hasTask |-> {TRUE},
     configs |-> {EmptyMap}, dirs |-> {None},
     events |-> { ItemEvent("item.started", FileChangeItem("f1", "in_progress", <<>>)),
                  ItemEvent("item.updated", FileChangeItem("f1", "in_progress", <<"p">>)),
                  ItemEvent("item.completed", FileChangeItem("f1", "completed", <<"p">>)),
                  ItemEvent("item.completed", FileChangeItem("f1", "failed", <<"p", "q">>)),
                  ItemEvent("item.started", TodoListItem("d1", <<"x">>)),
                  ItemEvent("item.updated", TodoListItem("d1", <<"x", "y">>)),
                  ItemEvent("item.completed", TodoListItem("d1", <<"x", "y">>)) },
     execs |-> OneExec, maxEvents |-> MaxEvents, cancels |-> 0,
     serial |-> TRUE,
     contextsOf |-> [t \in Tasks |-> Contexts], callbackName |-> "getConfig"]

\* one execute call at a time and no cancelTask call: an agent message i1, a
\* reasoning item i2 and a command x1 whose text and output grow, shrink and
\* change
Erratic ==
    [tasks |-> {"t1"}, contexts |-> {"c1"},
     messages |-> { HiMessage }, hasTask |-> {TRUE},
     configs |-> {EmptyMap}, dirs |-> {None},
     events |-> { ItemEvent("item.updated", TextItem("agent_message", "i1", t)) :
                    t \in { <<"a">>, <<"a", "b">>, <<"b">> } }
                \cup { ItemEvent("item.updated", TextItem("reasoning", "i2", t)) :
                    t \in { <<"a">>, <<"a", "b">> } }
                \cup { ItemEvent("item.updated", CommandItem("x1", "in_progress", o, None)) :
                    o \in { <<"o">>, <<"o", "p">> } }
                \cup { ItemEvent("item.completed",
                                 CommandItem("x1", "completed", <<"q">>, Some(0))) },
     execs |-> OneExec, maxEvents |-> MaxEvents, cancels |-> 0,
     serial |-> TRUE,
     contextsOf |-> [t \in Tasks |-> Contexts], callbackName |-> "getConfig"]

Next == NextOf(Lifecycle)
Spec == Init /\ [][Next]_vars

SpecTranslate == Init /\ [][NextOf(Translate)]_vars

SpecInputs == Init /\ [][NextOf(Inputs)]_vars

SpecSessions == Init /\ [][NextOf(Sessions)]_vars

SpecOrdering == Init /\ [][QuietOf(Ordering)]_vars

SpecDeltas == Init /\ [][QuietOf(Deltas)]_vars

SpecTools == Init /\ [][QuietOf(Tools)]_vars

\* the awaited runStreamed call resolves, and a finite stream comes to its end: the
\* event loop resumes execute when the awaited promise settles
SpecFinishing ==
    Init /\ [][QuietOf(Finishing)]_vars /\ \A e \in Execs : WF_vars(RunStreamed(e)) /\ WF_vars(StreamEnd(e))

SpecOverrides == Init /\ [][NextOf(Overrides)]_vars

SpecConcurrent == Init /\ [][QuietOf(Concurrent)]_vars

SpecReuse == Init /\ [][QuietOf(Reuse)]_vars

SpecDirectories == Init /\ [][NextOf(Directories)]_vars

SpecRecords == Init /\ [][QuietOf(Records)]_vars

SpecErratic == Init /\ [][QuietOf(Erratic)]_vars

\* ------------------------------------------------ reading what was published
IsTerminal(u) == u.kind = "status-update" /\ u.final
IsState(u, state) == u.kind = "status-update" /\ u.state = state

\* positions of task t's bus: the terminals, those of one state, those of one call
TerminalsOf(t) == { i \in DOMAIN published[t] : IsTerminal(published[t][i]) }
StateOf(t, state) == { i \in DOMAIN published[t] : IsState(published[t][i], state) }
ByCall(t, who) == { i \in DOMAIN publisher[t] : publisher[t][i] = who }

\* the execute calls made for task t
ExecutesOf(t) == { e \in Execs : execs[e].pc /= "idle" /\ execs[e].taskId = t }

\* the text of the one text part of a status-update's message
MessageText(u) == u.message.parts[1].text

\* ----------------------------------------------------------------- claims

\* C1: with one execute call and one cancelTask call of a task, a Canceled
\* terminal published while the execute call is under way is the last terminal
\* of the task: no Completed, Failed or Canceled is published after it.
C1_NoTerminalAfterCanceled ==
    \A t \in Tasks :
        (Cardinality(ExecutesOf(t)) <= 1 /\ cancelCalls[t] <= 1)
            => \A i, j, k \in DOMAIN published[t] :
                  (i < j /\ j < k /\ publisher[t][i] /= 0
                         /\ IsState(published[t][j], "canceled"))
                      => ~IsTerminal(published[t][k])

\* C2: when cancelTask(task) is called while an execute call of the task is
\* waiting on its stream, that call publishes nothing more for an event: what
\* it publishes after the cancel is the Canceled terminal (or, the stream
\* having ended without another event, its Completed).
C2_NoDispatchAfterCancel ==
    \A t \in Tasks : \A e \in ExecutesOf(t) :
        \A i, j, k \in DOMAIN published[t] :
            (i < j /\ j < k /\ publisher[t][i] = e /\ publisher[t][j] = 0
                   /\ publisher[t][k] = e)
                => (IsState(published[t][k], "canceled")
                    \/ IsState(published[t][k], "completed"))

\* C3: once cancelTask(task) has been called, exactly one Canceled terminal has
\* been published for the task in total, its sink is marked finished and the
\* task id is not in the cancellation set.
C3_CancelPublishesOneCanceled ==
    \A t \in Tasks :
        cancelCalls[t] >= 1
            => /\ Cardinality(StateOf(t, "canceled")) = 1
               /\ finished[t]
               /\ t \notin canceledTasks

\* C4: a cancelTask(task) call after an earlier one is a no-op: it publishes
\* nothing and changes no state of the executor.
C4_SecondCancelIsNoOp ==
    [][ \A t \in Tasks :
            (cancelCalls[t] >= 1 /\ cancelCalls'[t] = cancelCalls[t] + 1)
                => UNCHANGED <<published, finished, canceledTasks, taskContexts,
                               threads, threadWorkingDirs>> ]_vars

\* C5: what one execute call publishes holds at most one final status-update,
\* and nothing the call publishes comes after it.
C5_TerminalIsLast ==
    \A t \in Tasks : \A e \in Execs :
        LET mine == ByCall(t, e)
            terminals == mine \cap TerminalsOf(t)
        IN  /\ Cardinality(terminals) <= 1
            /\ \A i \in terminals : \A j \in mine : j <= i

\* C5, its case: a call that dispatched an event and then ended on turn.failed
C5_Witness ==
    \E e \in Execs :
        /\ execs[e].pc = "done" /\ execs[e].exit = "failed"
        /\ execs[e].acquired /\ execs[e].nEvents >= 1
        /\ Cardinality(ByCall(execs[e].taskId, e)) >= 4

\* the first position of call e on the bus of task t
FirstBy(t, e) == CHOOSE i \in ByCall(t, e) : \A j \in ByCall(t, e) : i <= j

\* C6: an execute call for a task that was canceled before it (cancelTask ran,
\* and no other execute call of the task since) publishes the Canceled terminal
\* and returns without reaching a thread.
C6_PreCanceledExecuteStops ==
    \A t \in Tasks : \A e \in ExecutesOf(t) :
        (/\ FirstBy(t, e) > 1
         /\ \A i \in 1..(FirstBy(t, e) - 1) : publisher[t][i] = 0)
            => /\ execs[e].exit = "canceled"
               /\ ~execs[e].acquired
               /\ \E k \in ByCall(t, e) : IsState(published[t][k], "canceled")

\* the last thing call e published for its task
LastBy(e) ==
    LET t == execs[e].taskId
        last == CHOOSE i \in ByCall(t, e) : \A j \in ByCall(t, e) : j <= i
    IN  published[t][last]

\* every text part of the message is empty (vacuously: there is none)
OnlyEmptyTextParts(userMessage) ==
    \A i \in DOMAIN userMessage.parts :
        userMessage.parts[i].kind = "text" => userMessage.parts[i].text = <<>>

\* at most one text part, and it is empty
AtMostOneEmptyTextPart(userMessage) ==
    /\ OnlyEmptyTextParts(userMessage)
    /\ Cardinality({ i \in DOMAIN userMessage.parts : userMessage.parts[i].kind = "text" }) <= 1

\* C7 as stated: when the message has no text part or only empty text parts,
\* execute publishes a final Failed whose message is "No text content", marks
\* the sink finished and returns.
C7_EmptyTextFailsAsStated ==
    \A e \in Execs :
        (execs[e].pc /= "idle" /\ OnlyEmptyTextParts(execs[e].userMessage))
            => /\ execs[e].pc = "done"
               /\ IsState(LastBy(e), "failed") /\ LastBy(e).final
               /\ MessageText(LastBy(e)) = <<"No text content">>
               /\ finished[execs[e].taskId]

\* C7 (amended): when the message has no text part, or one text part and that
\* one empty, execute publishes a final Failed whose message text is
\* "Error: No text content", marks the sink finished and returns without
\* reaching a thread; with any other message it goes on to the thread lookup.
C7_EmptyTextFails ==
    \A e \in Execs :
        execs[e].pc /= "idle"
            => IF AtMostOneEmptyTextPart(execs[e].userMessage)
               THEN /\ execs[e].pc = "done" /\ ~execs[e].acquired
                    /\ IsState(LastBy(e), "failed") /\ LastBy(e).final
                    /\ LastBy(e).codexAgent = "state-change"
                    /\ MessageText(LastBy(e)) = <<"Error: ", "No text content">>
                    /\ finished[execs[e].taskId]
               ELSE execs[e].acquired

\* C7, its case: the failure published for a message of one empty text part
C7_Witness ==
    \E e \in Execs :
        /\ execs[e].pc = "done" /\ execs[e].exit = "failed" /\ ~execs[e].acquired
        /\ execs[e].userMessage.parts = <<TextPart(<<>>)>>
        /\ finished[execs[e].taskId]

AcquiredOn(c) == { e \in Execs : execs[e].acquired /\ execs[e].contextId = c }

\* d and e are successive thread lookups on one context
Successive(d, e) ==
    /\ d < e /\ execs[d].acquired /\ execs[e].acquired
    /\ execs[d].contextId = execs[e].contextId
    /\ \A m \in AcquiredOn(execs[d].contextId) : ~(d < m /\ m < e)

\* call e ran on a thread that codex.startThread made for it
StartedThread(e) ==
    \A d \in Execs : (d < e /\ execs[d].acquired) => execs[d].thread /= execs[e].thread

\* C9: of two successive executions on one context whose working directories
\* differ, the second calls codex.startThread and runs on the new thread; the
\* first one's thread is from then on not the context's thread.
C9_NewDirectoryNewThread ==
    \A d, e \in Execs :
        (Successive(d, e) /\ execs[d].currentWorkingDir /= execs[e].currentWorkingDir)
            => /\ StartedThread(e)
               /\ execs[e].thread /= execs[d].thread
               /\ threads[execs[d].contextId] /= execs[d].thread

\* C9, its case
C9_Witness ==
    \E d, e \in Execs :
        /\ Successive(d, e)
        /\ execs[d].currentWorkingDir /= execs[e].currentWorkingDir
        /\ execs[e].pc = "done" /\ execs[e].exit = "completed"

\* the threads the calls on context c ran on
ThreadsOn(c) == { execs[e].thread : e \in AcquiredOn(c) }

\* C10: when every execution that reached the thread lookup on a context had
\* the same working directory, codex.startThread was called once for the
\* context, by the first of them, and all of them ran on that thread, which is
\* the context's thread.
C10_SameDirectoryOneThread ==
    \A c \in Contexts :
        (/\ AcquiredOn(c) /= {}
         /\ \A d, e \in AcquiredOn(c) :
                execs[d].currentWorkingDir = execs[e].currentWorkingDir)
            => /\ Cardinality(ThreadsOn(c)) = 1
               /\ \A e \in AcquiredOn(c) : threads[c] = execs[e].thread
               /\ Len(startThreadArgs) = Cardinality(UNION { ThreadsOn(k) : k \in Contexts })

\* C10, its case: two executions with one working directory, both returned
C10_Witness ==
    \E d, e \in Execs :
        /\ Successive(d, e)
        /\ execs[d].currentWorkingDir = execs[e].currentWorkingDir
        /\ AcquiredOn(execs[d].contextId) = {d, e}
        /\ execs[d].pc = "done" /\ execs[e].pc = "done"


\* ------------------------------------------------ what one call published
\* the updates execute call e passed to the bus, in publish order
SeqBy(e) ==
    LET t == execs[e].taskId
        upTo[i \in 0..Len(published[t])] ==
            IF i = 0 THEN <<>>
            ELSE IF publisher[t][i] = e THEN Append(upTo[i - 1], published[t][i])
            ELSE upTo[i - 1]
    IN  IF execs[e].pc = "idle" THEN <<>> ELSE upTo[Len(published[t])]

\* the number of updates execute call e publishes before it looks at its input
OpeningLength(e) == IF execs[e].hasTask THEN 1 ELSE 2

\* what call e published after its opening updates
AfterOpening(e) == SubSeq(SeqBy(e), OpeningLength(e) + 1, Len(SeqBy(e)))

\* the events of call e that did not end it
Dispatched(e) == SelectSeq(execs[e].seen, LAMBDA ev : ev.type /= "turn.failed")

\* call e read a stream and returned because the stream ended
RanToCompletion(e) == execs[e].pc = "done" /\ execs[e].acquired /\ execs[e].exit = "completed"

\* ---------------------------------------------------------------- C11
\* the updates the event table gives for the first n events of call e, for
\* streams in which an item id carries one text throughout: a turn start gives
\* Working(turn-started); an agent message gives its text as one Working
\* (text-content) the first time and nothing after; a turn completion gives the
\* usage artifact and then Working(turn-completed)
RECURSIVE C11_Table(_, _)
C11_Table(e, n) ==
    IF n = 0 THEN <<>>
    ELSE LET x == execs[e]
             ev == Dispatched(e)[n]
             repeated == \E j \in 1..(n - 1) : Dispatched(e)[j] = ev
             here ==
                CASE ev.type = "turn.started" ->
                        << StatusUpdate(x.taskId, x.contextId, "working", FALSE,
                                        NoMessage, "turn-started") >>
                  [] ev.type = "turn.completed" ->
                        << [kind |-> "artifact-update", taskId |-> x.taskId,
                            contextId |-> x.contextId,
                            artifactId |-> <<"tool-", "turn-usage", "-output">>,
                            text |-> << [json |-> [usage |-> ev.usage]] >>,
                            append |-> FALSE, lastChunk |-> TRUE],
                           StatusUpdate(x.taskId, x.contextId, "working", FALSE,
                                        NoMessage, "turn-completed") >>
                  [] OTHER ->
                        IF repeated THEN <<>>
                        ELSE << TextContent(x.taskId, x.contextId, ev.item.text) >>
         IN  C11_Table(e, n - 1) \o here

\* the stream [turn.started, item.completed(agent_message, T), turn.completed]
C11_OneTurn == << TurnStarted, AgentMessageDone("i1", <<"a">>), TurnCompleted >>

\* C11: an execute call with text input publishes, after its opening updates,
\* the updates of its events in the order of the events, each event's updates
\* in the order of the table; the stream of one turn start, one completed agent
\* message with text T and one turn completion, run to its end, gives exactly
\* Working(turn-started), Working(text-content, T), the artifact
\* tool-turn-usage-output with lastChunk, Working(turn-completed) and the final
\* Completed
C11_UpdatesFollowEvents ==
    \A e \in Execs :
        LET x == execs[e]
            body == AfterOpening(e)
            n == Len(Dispatched(e))
            table == C11_Table(e, n)
        IN  x.acquired =>
              /\ Len(body) >= Len(table)
              /\ SubSeq(body, 1, Len(table)) = table
              /\ Len(body) <= Len(table) + 1
              /\ (RanToCompletion(e) /\ x.seen = C11_OneTurn) =>
                    /\ Len(body) = 5
                    /\ IsState(body[1], "working") /\ body[1].codexAgent = "turn-started"
                    /\ IsState(body[2], "working") /\ body[2].codexAgent = "text-content"
                    /\ MessageText(body[2]) = <<"a">>
                    /\ body[3].kind = "artifact-update"
                    /\ body[3].artifactId = <<"tool-", "turn-usage", "-output">>
                    /\ body[3].lastChunk
                    /\ IsState(body[4], "working") /\ body[4].codexAgent = "turn-completed"
                    /\ IsState(body[5], "completed") /\ body[5].final

\* a call has run the one-turn stream to its end
C11_Witness ==
    \E e \in Execs : RanToCompletion(e) /\ execs[e].seen = C11_OneTurn


\* ---------------------------------------------------------------- C12
\* the texts item id carried in the events of call e, in order
TextsOfItem(e, id) ==
    LET of == SelectSeq(execs[e].seen,
                        LAMBDA ev : ev.type \in ItemEventTypes /\ ev.item.id = id)
    IN  [k \in DOMAIN of |-> of[k].item.text]

\* s is a prefix of t
IsPrefix(s, t) == Len(s) <= Len(t) /\ SubSeq(t, 1, Len(s)) = s

\* each text extends the one before it
GrowsMonotonically(texts) ==
    \A k \in 1..(Len(texts) - 1) : IsPrefix(texts[k], texts[k + 1])

\* the text deltas call e published with the given codexAgent kind: the agent
\* message i1 publishes text-content, the reasoning item i2 publishes thought
DeltasOf(e, kind) ==
    LET of == SelectSeq(SeqBy(e), LAMBDA u : u.kind = "status-update" /\ u.codexAgent = kind)
    IN  [k \in DOMAIN of |->
            IF kind = "thought" THEN of[k].message.parts[1].data.text
            ELSE of[k].message.parts[1].text]

RECURSIVE Concatenation(_)
Concatenation(texts) ==
    IF texts = <<>> THEN <<>> ELSE texts[1] \o Concatenation(Tail(texts))

\* the last text of a sequence of texts, the empty text if there is none
FinalText(texts) == IF texts = <<>> THEN <<>> ELSE texts[Len(texts)]

\* C12: within one execute call, for the agent message and for the reasoning
\* item, if the item's text grows monotonically over its events then the deltas
\* published for it, concatenated in publish order, are its last text
C12_DeltasRebuildText ==
    \A e \in Execs :
        execs[e].acquired =>
            /\ GrowsMonotonically(TextsOfItem(e, "i1")) =>
                  Concatenation(DeltasOf(e, "text-content")) = FinalText(TextsOfItem(e, "i1"))
            /\ GrowsMonotonically(TextsOfItem(e, "i2")) =>
                  Concatenation(DeltasOf(e, "thought")) = FinalText(TextsOfItem(e, "i2"))

\* an item's text grew over two events and two deltas were published for it
C12_Witness ==
    \E e \in Execs :
        /\ TextsOfItem(e, "i1") = << <<"a">>, <<"a", "b">> >>
        /\ DeltasOf(e, "text-content") = << <<"a">>, <<"b">> >>


\* ---------------------------------------------------------------- C13
\* the tool-updates call e published for item id
ToolUpdatesOf(e, id) ==
    SelectSeq(SeqBy(e), LAMBDA u : /\ u.kind = "status-update"
                                   /\ u.codexAgent = "tool-call-update"
                                   /\ u.message.parts[1].data.request.callId = id)

\* a tool-update that reports the end of its item: a command's carries the exit
\* code, an MCP tool call's carries the error or the result
IsToolTerminal(u) ==
    LET data == u.message.parts[1].data
    IN  \/ "exitCode" \in DOMAIN data
        \/ "error" \in DOMAIN data
        \/ "result" \in DOMAIN data

StartedOf(updates) == SelectSeq(updates, LAMBDA u : ~IsToolTerminal(u))
ToolTerminalsOf(updates) == SelectSeq(updates, IsToolTerminal)

\* the events of call e for item id, and those of them that are completions
EventsOfItem(e, id) ==
    SelectSeq(execs[e].seen, LAMBDA ev : ev.type \in ItemEventTypes /\ ev.item.id = id)
CompletionsOf(e, id) == SelectSeq(EventsOfItem(e, id), LAMBDA ev : ev.type = "item.completed")

\* the first completion event of item id has something to report: always for a
\* command, only with an error or a result for an MCP tool call
FirstCompletionReports(e, id) ==
    /\ CompletionsOf(e, id) /= <<>>
    /\ LET item == CompletionsOf(e, id)[1].item
       IN  item.type = "mcp_tool_call" => (item.error /= None \/ item.result /= None)

ToolItemIds == {"x1", "m1"}

\* C13 as stated: an execute call that ran its stream to the end has published,
\* for every command or MCP tool call in the stream, exactly one started
\* tool-update and exactly one terminal (completed or failed) tool-update
C13_OneStartedOneTerminalAsStated ==
    \A e \in Execs : \A id \in ToolItemIds :
        (RanToCompletion(e) /\ EventsOfItem(e, id) /= <<>>) =>
            LET updates == ToolUpdatesOf(e, id)
            IN  /\ Len(StartedOf(updates)) = 1
                /\ Len(ToolTerminalsOf(updates)) = 1

\* C13: for every command or MCP tool call in the events of an execute call,
\* the call has published exactly one started tool-update, first among the
\* item's tool-updates, and one terminal tool-update if the item's first
\* completion event has something to report, none otherwise
C13_OneStartedAtMostOneTerminal ==
    \A e \in Execs : \A id \in ToolItemIds :
        (execs[e].acquired /\ EventsOfItem(e, id) /= <<>>) =>
            LET updates == ToolUpdatesOf(e, id)
            IN  /\ Len(StartedOf(updates)) = 1
                /\ ~IsToolTerminal(updates[1])
                /\ Len(ToolTerminalsOf(updates)) =
                      (IF FirstCompletionReports(e, id) THEN 1 ELSE 0)

\* a command was completed twice in one stream and has one terminal tool-update
C13_Witness ==
    \E e \in Execs :
        /\ RanToCompletion(e)
        /\ Len(CompletionsOf(e, "x1")) = 2
        /\ Len(StartedOf(ToolUpdatesOf(e, "x1"))) = 1
        /\ Len(ToolTerminalsOf(ToolUpdatesOf(e, "x1"))) = 1


\* ---------------------------------------------------------------- C14
\* call e has dispatched no turn.failed event
NoTurnFailed(e) == \A k \in DOMAIN execs[e].seen : execs[e].seen[k].type /= "turn.failed"

\* C14: an execute call with text input, no cancelTask call and a finite stream
\* without turn.failed returns; when it has returned, the last update it
\* published is the final Completed and the sink is finished
C14_StreamEndCompletes ==
    /\ [](\A e \in Execs :
            (execs[e].pc = "done" /\ execs[e].acquired /\ NoTurnFailed(e)) =>
                LET x == execs[e]
                    last == SeqBy(e)[Len(SeqBy(e))]
                IN  /\ x.exit = "completed"
                    /\ IsState(last, "completed") /\ last.final
                    /\ finished[x.taskId])
    /\ \A e \in Execs :
          (execs[e].acquired /\ NoTurnFailed(e))
             ~> (execs[e].pc = "done" \/ ~NoTurnFailed(e))

\* a call has read a stream of several events to its end
C14_Witness ==
    \E e \in Execs :
        /\ RanToCompletion(e) /\ Len(execs[e].seen) >= 2 /\ NoTurnFailed(e)
        /\ finished[execs[e].taskId]


\* ---------------------------------------------------------------- C15
\* the positions of turn.failed among the events of call e
TurnFailedAt(e) == { k \in DOMAIN execs[e].seen : execs[e].seen[k].type = "turn.failed" }

\* C15: an execute call that dispatched a turn.failed event has returned, and
\* that event is the last it dispatched; the last update it published is a
\* final Failed whose text ends with the event's error message, the sink is
\* finished, and the call published no Completed
C15_TurnFailedStops ==
    \A e \in Execs :
        LET x == execs[e]
            last == SeqBy(e)[Len(SeqBy(e))]
            message == x.seen[Len(x.seen)].error.message
        IN  TurnFailedAt(e) /= {} =>
              /\ x.pc = "done" /\ x.exit = "failed"
              /\ TurnFailedAt(e) = { Len(x.seen) }
              /\ IsState(last, "failed") /\ last.final
              /\ MessageText(last) = <<"Error: ">> \o message
              /\ finished[x.taskId]
              /\ \A k \in DOMAIN SeqBy(e) :
                    /\ ~IsState(SeqBy(e)[k], "completed")
                    /\ IsTerminal(SeqBy(e)[k]) => k = Len(SeqBy(e))

\* a call dispatched two events and then a turn.failed with message "bang"
C15_Witness ==
    \E e \in Execs :
        /\ Len(execs[e].seen) = 3
        /\ execs[e].seen[3] = TurnFailed(<<"bang">>)
        /\ execs[e].pc = "done"
        /\ MessageText(SeqBy(e)[Len(SeqBy(e))]) = <<"Error: ", "bang">>


\* ---------------------------------------------------------------- C16
\* C16: every call of codex.startThread receives the override's sandbox mode,
\* network access, web search and approval policy where the override callback
\* gives them, and the working-directory override as its working directory:
\* for the executor built with the callbacks of the test `resolves config and
\* working directory overrides`, the values that test expects
C16_FactoryReceivesOverrides ==
    \A k \in DOMAIN startThreadArgs :
        LET options == startThreadArgs[k]
        IN  /\ options.sandboxMode = TestThreadOptions.sandboxMode
            /\ options.networkAccessEnabled = TestThreadOptions.networkAccessEnabled
            /\ options.webSearchEnabled = TestThreadOptions.webSearchEnabled
            /\ options.approvalPolicy = TestThreadOptions.approvalPolicy
            /\ options.workingDirectory = Some(<<"/tmp/project">>)


\* ---------------------------------------------------------------- C17
\* what a call with the request and the events of x publishes when no other
\* call is made, up to the point x has reached
RunAlone(x) ==
    Opening(x.taskId, x.contextId, x.userMessage, x.hasTask)
    \o LoopAlone(x, Len(x.seen)).updates
    \o (IF x.pc = "done"
        THEN << StatusUpdate(x.taskId, x.contextId, "completed", TRUE, NoMessage,
                             "state-change") >>
        ELSE <<>>)

\* the task id and the context id an update carries
TaskIdOf(u) == IF u.kind = "task" THEN u.id ELSE u.taskId

\* two calls on different contexts are reading their streams at the same time
Interleaved(d, e) ==
    /\ execs[d].contextId /= execs[e].contextId
    /\ execs[d].pc = "streaming" /\ execs[e].pc = "streaming"

\* C17: with execute calls on different contexts interleaved at their awaits,
\* each call has published what it publishes when run alone on the same request
\* and events, every update carries the call's own task id and context id, the
\* call's context is registered with the call's thread, and no call on another
\* context runs on that thread
C17_InterleavingChangesNothing ==
    \A e \in Execs :
        LET x == execs[e] IN
        x.acquired =>
            /\ SeqBy(e) = RunAlone(x)
            /\ \A k \in DOMAIN SeqBy(e) :
                  TaskIdOf(SeqBy(e)[k]) = x.taskId /\ SeqBy(e)[k].contextId = x.contextId
            /\ MapGet(threads, x.contextId) = Some(x.thread)
            /\ \A d \in Execs :
                  (execs[d].acquired /\ execs[d].contextId /= x.contextId) =>
                      execs[d].thread /= x.thread

\* two calls on different contexts are reading their streams at the same time
\* and each has published two deltas of the item id both streams report
C17_Witness ==
    \E d, e \in Execs :
        /\ Interleaved(d, e)
        /\ Len(execs[d].seen) = 2 /\ Len(execs[e].seen) = 2
        /\ Len(SeqBy(d)) = 4 /\ Len(SeqBy(e)) = 4


\* ---------------------------------------------------------------- C18
\* call e runs on the thread an earlier call d ran on
ReusesThreadOf(d, e) ==
    /\ d < e /\ execs[d].acquired /\ execs[e].acquired
    /\ execs[d].contextId = execs[e].contextId
    /\ execs[d].thread = execs[e].thread

\* C18: an execute call on a reused thread, whatever the call before it on that
\* thread sent: the first delta it publishes for the agent message is the whole
\* text of the message's first event in this call, and it publishes one started
\* tool-update for the command once the command has appeared in this call
C18_BookkeepingPerCall ==
    \A d, e \in Execs :
        ReusesThreadOf(d, e) =>
            /\ TextsOfItem(e, "i1") /= <<>> =>
                  /\ DeltasOf(e, "text-content") /= <<>>
                  /\ DeltasOf(e, "text-content")[1] = TextsOfItem(e, "i1")[1]
            /\ EventsOfItem(e, "x1") /= <<>> =>
                  Len(StartedOf(ToolUpdatesOf(e, "x1"))) = 1

\* a call saw the whole agent message and the command; the next call on the same
\* thread saw them again and published the whole text and a started tool-update
C18_Witness ==
    \E d, e \in Execs :
        /\ ReusesThreadOf(d, e)
        /\ TextsOfItem(d, "i1") = << <<"a", "b">> >> /\ EventsOfItem(d, "x1") /= <<>>
        /\ TextsOfItem(e, "i1") = << <<"a", "b">> >> /\ EventsOfItem(e, "x1") /= <<>>
        /\ DeltasOf(e, "text-content") = << <<"a", "b">> >>
        /\ Len(StartedOf(ToolUpdatesOf(e, "x1"))) = 1


\* ---------------------------------------------------------------- C19
\* the context id of the first execute call made for task t
FirstContextOf(t) ==
    LET first == CHOOSE e \in ExecutesOf(t) : \A d \in ExecutesOf(t) : e <= d
    IN  execs[first].contextId

\* the positions of task t's bus written by cancelTask after an execute call
\* has published for the task
CanceledAfterExecute(t) ==
    { i \in ByCall(t, 0) : \E j \in DOMAIN publisher[t] : j < i /\ publisher[t][j] /= 0 }

\* C19: once an execute call has been made for a task, the context id recorded
\* for the task, as long as one is recorded, is that of the first such call,
\* and every Canceled update cancelTask publishes for the task carries it
C19_ContextFixedAtFirstSight ==
    \A t \in Tasks :
        ExecutesOf(t) /= {} =>
            /\ MapHas(taskContexts, t) => taskContexts[t] = FirstContextOf(t)
            /\ \A i \in CanceledAfterExecute(t) :
                  published[t][i].contextId = FirstContextOf(t)


\* ---------------------------------------------------------------- C20
\* C20: what an execute call has published begins, when the request carried no
\* task, with a task record in state submitted whose history is the input
\* message, and then, or first when the request carried a task, with a
\* non-final Working status-update tagged state-change; the call publishes no
\* other task record, and no final update before that Working update
C20_OpeningOrder ==
    \A e \in Execs :
        LET x == execs[e]
            s == SeqBy(e)
            w == IF x.hasTask THEN 1 ELSE 2
        IN  x.pc /= "idle" =>
              /\ Len(s) >= w
              /\ ~x.hasTask =>
                    /\ s[1].kind = "task" /\ s[1].id = x.taskId
                    /\ s[1].contextId = x.contextId
                    /\ s[1].state = "submitted" /\ s[1].history = << x.userMessage >>
              /\ IsState(s[w], "working") /\ ~s[w].final
              /\ s[w].codexAgent = "state-change"
              /\ \A k \in DOMAIN s : k > w => s[k].kind /= "task"
              /\ \A k \in DOMAIN s : IsTerminal(s[k]) => k > w

\* a call whose request carried a task has returned: it published the Working
\* update first and a final update after it
C20_Witness ==
    \E e \in Execs :
        /\ execs[e].pc = "done" /\ execs[e].hasTask
        /\ IsState(SeqBy(e)[1], "working")
        /\ IsTerminal(SeqBy(e)[Len(SeqBy(e))])


\* ---------------------------------------------------------------- C21
\* u is a chunk of the output artifact of item id
IsOutputOf(u, id) == u.kind = "artifact-update" /\ u.artifactId = <<"tool-", id, "-output">>

\* u is a tool-update of item id
IsToolUpdateOf(u, id) ==
    /\ u.kind = "status-update" /\ u.codexAgent = "tool-call-update"
    /\ u.message.parts[1].data.request.callId = id

\* everything call e published for item id: its tool-updates and output chunks
PublishedFor(e, id) ==
    SelectSeq(SeqBy(e), LAMBDA u : IsOutputOf(u, id) \/ IsToolUpdateOf(u, id))

\* C21: for the command x1, whatever started, updated and completed events an
\* execute call has dispatched for it and in whatever order, the first thing
\* the call published for it is a started tool-update, which is the only one,
\* so that it comes before every output chunk, and at most one completed
\* tool-update was published, after the started one
C21_CommandStartedFirst ==
    \A e \in Execs :
        (execs[e].acquired /\ EventsOfItem(e, "x1") /= <<>>) =>
            LET all == PublishedFor(e, "x1")
                startedAt == { k \in DOMAIN all : IsToolUpdateOf(all[k], "x1")
                                                  /\ ~IsToolTerminal(all[k]) }
                completedAt == { k \in DOMAIN all : IsToolUpdateOf(all[k], "x1")
                                                    /\ IsToolTerminal(all[k]) }
            IN  /\ startedAt = {1}
                /\ Cardinality(completedAt) <= 1

\* the first event of the command was its completion, with output, and a second
\* completion followed: started, the output chunk and completed were published
C21_Witness ==
    \E e \in Execs :
        /\ Len(execs[e].seen) = 2
        /\ \A k \in 1..2 : /\ execs[e].seen[k].type = "item.completed"
                           /\ execs[e].seen[k].item.id = "x1"
        /\ Len(PublishedFor(e, "x1")) = 3
        /\ IsOutputOf(PublishedFor(e, "x1")[2], "x1")
        /\ IsToolTerminal(PublishedFor(e, "x1")[3])


\* ---------------------------------------------------------------- C22
\* what call e published for the MCP tool call m1 apart from its started update
McpReport(e) ==
    SelectSeq(PublishedFor(e, "m1"),
              LAMBDA u : IsOutputOf(u, "m1") \/ IsToolTerminal(u))

\* the failed tool-update for an error, and the artifact chunk and completed
\* tool-update for a result, of the MCP tool call m1 in call e
McpFailed(e, error) ==
    ToolUpdate(execs[e].taskId, execs[e].contextId,
               [request |-> [callId |-> "m1", name |-> "mcp_tool_call"],
                status |-> "failed", error |-> error])
McpCompleted(e, result) ==
    << [kind |-> "artifact-update", taskId |-> execs[e].taskId,
        contextId |-> execs[e].contextId,
        artifactId |-> <<"tool-", "m1", "-output">>, text |-> << [json |-> result] >>,
        append |-> FALSE, lastChunk |-> TRUE],
       ToolUpdate(execs[e].taskId, execs[e].contextId,
                  [request |-> [callId |-> "m1", name |-> "mcp_tool_call"],
                   status |-> "completed", result |-> result, output |-> result]) >>

TrimmedDirectory(currentWorkingDir) ==
    IF Trim(currentWorkingDir) = <<>> THEN ProcessCwd ELSE Trim(currentWorkingDir)

\* C23: two successive executions on one context whose working directories are
\* the same once trimmed, a blank one counting as absent, have the same thread
\* key: the second reuses the thread of the first
C23_TrimmedDirectoryKeepsThread ==
    \A d, e \in Execs :
        (/\ Successive(d, e)
         /\ TrimmedDirectory(execs[d].currentWorkingDir)
              = TrimmedDirectory(execs[e].currentWorkingDir))
            => execs[e].thread = execs[d].thread


\* ---------------------------------------------------------------- C24
\* every output chunk of item id in s, the updates one call published, is
\* followed at once by a tool-update of that item
ChunkThenToolUpdate(s, id) ==
    \A k \in DOMAIN s :
        IsOutputOf(s[k], id) => (k < Len(s) /\ IsToolUpdateOf(s[k + 1], id))

\* the updates of s that are about item id: its tool-updates and output chunks
About(s, id) == SelectSeq(s, LAMBDA u : IsOutputOf(u, id) \/ IsToolUpdateOf(u, id))

\* the artifact chunk and the tool-update of each of the first n completion
\* events of the file change f1 in call e
RECURSIVE FileChangeReports(_, _)
FileChangeReports(e, n) ==
    IF n = 0 THEN <<>>
    ELSE LET item == CompletionsOf(e, "f1")[n].item
         IN  FileChangeReports(e, n - 1) \o
             << [kind |-> "artifact-update", taskId |-> execs[e].taskId,
                 contextId |-> execs[e].contextId,
                 artifactId |-> <<"tool-", "f1", "-output">>,
                 text |-> << [json |-> [changes |-> item.changes]] >>,
                 append |-> FALSE, lastChunk |-> TRUE],
                ToolUpdate(execs[e].taskId, execs[e].contextId,
                           [request |-> [callId |-> "f1", name |-> "file_change"],
                            status |-> item.status, changes |-> item.changes]) >>

\* C24: what an execute call has published for the file change f1 is, for each
\* completion event of f1 and nothing else, one artifact chunk
\* tool-f1-output, not appended and last, with the serialized change list, and
\* straight after it one tool-update with the item's status and changes
C24_FileChangeAtCompletion ==
    \A e \in Execs :
        execs[e].acquired =>
            LET s == SeqBy(e)
            IN  /\ About(s, "f1") = FileChangeReports(e, Len(CompletionsOf(e, "f1")))
                /\ ChunkThenToolUpdate(s, "f1")

\* the file change was updated and then completed: one chunk and one tool-update
C24_Witness ==
    \E e \in Execs :
        /\ Len(EventsOfItem(e, "f1")) = 2
        /\ EventsOfItem(e, "f1")[1].type = "item.updated"
        /\ EventsOfItem(e, "f1")[2].type = "item.completed"
        /\ Len(PublishedFor(e, "f1")) = 2

\* ---------------------------------------------------------------- C25
\* the artifact chunk and the tool-update of each of the first n events of the
\* todo list d1 in call e
RECURSIVE TodoListReports(_, _)
TodoListReports(e, n) ==
    IF n = 0 THEN <<>>
    ELSE LET item == EventsOfItem(e, "d1")[n].item
         IN  TodoListReports(e, n - 1) \o
             << [kind |-> "artifact-update", taskId |-> execs[e].taskId,
                 contextId |-> execs[e].contextId,
                 artifactId |-> <<"tool-", "d1", "-output">>,
                 text |-> << [json |-> [items |-> item.items]] >>,
                 append |-> FALSE, lastChunk |-> TRUE],
                ToolUpdate(execs[e].taskId, execs[e].contextId,
                           [request |-> [callId |-> "d1", name |-> "todo_list"],
                            status |-> "updated", items |-> item.items]) >>

\* C25: an execute call that has dispatched n events of the todo list d1,
\* started, updated or completed, repeated or not, has published for it n final
\* artifact chunks tool-d1-output and n tool-updates with status updated, each
\* chunk followed at once by the tool-update of the same event
C25_TodoListEveryEvent ==
    \A e \in Execs :
        execs[e].acquired =>
            LET n == Len(EventsOfItem(e, "d1"))
                s == SeqBy(e)
                all == About(s, "d1")
            IN  /\ all = TodoListReports(e, n)
                /\ Len(SelectSeq(all, LAMBDA u : IsOutputOf(u, "d1"))) = n
                /\ Len(SelectSeq(all, LAMBDA u : IsToolUpdateOf(u, "d1"))) = n
                /\ ChunkThenToolUpdate(s, "d1")

\* the same todo list event came twice and was reported twice
C25_Witness ==
    \E e \in Execs :
        /\ Len(EventsOfItem(e, "d1")) = 2
        /\ EventsOfItem(e, "d1")[1] = EventsOfItem(e, "d1")[2]
        /\ Len(PublishedFor(e, "d1")) = 4


\* ---------------------------------------------------------------- C26
\* the execute call for which codex.startThread made thread n
CreatorOf(n) ==
    CHOOSE e \in Execs : execs[e].acquired /\ execs[e].thread = n /\ StartedThread(e)

\* C26: the contexts with a thread are those with a thread key; a context's
\* thread was made by a call on that context, its stored key is that context
\* id, a colon and the working directory of that call, the directory passed to
\* codex.startThread for it; and no two contexts have the same thread
C26_ThreadMatchesKey ==
    /\ DOMAIN threads = DOMAIN threadWorkingDirs
    /\ \A c \in DOMAIN threads :
          LET n == threads[c]
              made == execs[CreatorOf(n)]
              given == startThreadArgs[n].workingDirectory
          IN  /\ n \in DOMAIN startThreadArgs
              /\ \E e \in Execs : execs[e].acquired /\ execs[e].thread = n /\ StartedThread(e)
              /\ made.contextId = c
              /\ threadWorkingDirs[c] = <<c, ":">> \o made.currentWorkingDir
              /\ made.currentWorkingDir = (IF given = None THEN ProcessCwd ELSE given[1])
    /\ \A c, k \in DOMAIN threads : threads[c] = threads[k] => c = k

\* a context's thread was replaced: its second thread is registered under the
\* key of the second working directory
C26_Witness ==
    \E c \in DOMAIN threads :
        /\ threads[c] = 2
        /\ \E d, e \in AcquiredOn(c) :
              /\ execs[d].thread = 1 /\ execs[e].thread = 2
              /\ threadWorkingDirs[c] = <<c, ":">> \o execs[e].currentWorkingDir
              /\ execs[e].currentWorkingDir /= execs[d].currentWorkingDir


\* ---------------------------------------------------------------- C27
\* C27: between the steps of the executor, which is where an execute call
\* evaluates its entry check and its per-event check, the cancellation set is
\* empty whatever cancelTask calls were made, and no execute call has left
\* through a canceled branch
C27_CancellationSetEmpty ==
    /\ canceledTasks = {}
    /\ \A e \in Execs : execs[e].exit /= "canceled"

\* cancelTask was called for the task of a call that was reading its stream,
\* and the call went on to dispatch an event
C27_Witness ==
    \E e \in Execs :
        LET t == execs[e].taskId
        IN  /\ execs[e].acquired /\ cancelCalls[t] > 0
            /\ \E i, j \in DOMAIN publisher[t] :
                  /\ i < j /\ publisher[t][i] = e /\ publisher[t][j] = e
                  /\ \E k \in DOMAIN publisher[t] : i < k /\ k < j /\ publisher[t][k] = 0
                  /\ IsState(published[t][j], "working")
                  /\ published[t][j].codexAgent /= "state-change"


\* ---------------------------------------------------------------- C28
\* u carries a text delta of an agent message or of a reasoning item, or a
\* chunk of command output
IsDelta(u) ==
    \/ u.kind = "artifact-update"
    \/ u.kind = "status-update" /\ u.codexAgent \in {"text-content", "thought"}

\* the text u carries
DeltaText(u) ==
    IF u.kind = "artifact-update" THEN u.text
    ELSE IF u.codexAgent = "thought" THEN u.message.parts[1].data.text
    ELSE MessageText(u)

\* the bookkeeping key and the text of an item event: the item id and the text
\* of an agent message or reasoning item, the output key and the aggregated
\* output of a command
LengthKey(ev) ==
    IF ev.item.type = "command_execution" THEN <<ev.item.id, ":output">> ELSE <<ev.item.id>>
GrowingText(ev) ==
    IF ev.item.type = "command_execution" THEN ev.item.aggregated_output ELSE ev.item.text


\* C28: whatever the stream, no text delta and no command-output chunk
\* published is empty; when a call dispatches an event, no recorded sent-length
\* decreases, and an event whose text is not longer than the sent-length
\* recorded for its key publishes no delta and leaves the sent-lengths as they
\* were
C28_DeltasNeverEmpty ==
    /\ [](\A t \in Tasks : \A i \in DOMAIN published[t] :
            IsDelta(published[t][i]) => DeltaText(published[t][i]) /= <<>>)
    /\ [][\A e \in Execs :
            (/\ execs[e].pc = "streaming" /\ execs'[e].pc = "streaming"
             /\ Len(execs'[e].seen) = Len(execs[e].seen) + 1) =>
                LET ev == execs'[e].seen[Len(execs'[e].seen)]
                    before == execs[e].sentTextLengths
                    after == execs'[e].sentTextLengths
                    t == execs[e].taskId
                    new == SubSeq(published'[t], Len(published[t]) + 1, Len(published'[t]))
                IN  /\ \A k \in DOMAIN before :
                          k \in DOMAIN after /\ after[k] >= before[k]
                    /\ Len(GrowingText(ev)) <= SentLength(before, LengthKey(ev)) =>
                          /\ after = before
                          /\ \A k \in DOMAIN new : ~IsDelta(new[k])]_vars

\* a call has published a delta or a chunk, and the text of its next event for
\* the same item or command was shorter than what it had sent
C28_Witness ==
    \E e \in Execs :
        /\ execs[e].pc = "streaming"
        /\ Len(execs[e].seen) = 2
        /\ LET deltas == SelectSeq(AfterOpening(e), IsDelta)
           IN  /\ Len(deltas) = 1
               /\ DeltaText(deltas[1]) \in { <<"a", "b">>, <<"o", "p">> }
        /\ LengthKey(execs[e].seen[1]) = LengthKey(execs[e].seen[2])
        /\ Len(GrowingText(execs[e].seen[2])) = 1
        /\ execs[e].sentTextLengths[LengthKey(execs[e].seen[2])] = 2

\* ---------------------------------------------------------------- C29
\* stop() call k returns in this step
StopCompletes(k) == stops[k].pc /= "done" /\ stops'[k].pc = "done"

\* C29: a start() call made while the server is running or while an earlier
\* start() call is in progress creates no http server and no executor; the URL
\* getUrl() reports changes only when a stop() call clears it; when a stop()
\* call returns, isRunning() is false and getUrl() is null
C29_StartIdempotent ==
    /\ [](\A c \in StartCalls : starts[c].overlapped => starts[c].listener = 0)
    /\ [][(serverUrl /= None /\ serverUrl' /= serverUrl)
            => (serverUrl' = None /\ \E k \in StopCalls : StopCompletes(k))]_vars
    /\ [][\A k \in StopCalls :
            StopCompletes(k) => (~running' /\ serverUrl' = None)]_vars
====
